---- MODULE Spec2Model ----
(***************************************************************************)
(* A model of simplecs: the generational index allocator                   *)
(* (generational_index.rs), the component storages and their scanners      *)
(* (dense_component.rs, sparse_component.rs), the entity scanners          *)
(* (entity.rs) and the scanner combinators (component_scanner.rs).         *)
(*                                                                         *)
(* Rust's Option<T> is modelled as a sequence of length at most one:       *)
(* None is <<>> and Some(x) is <<x>>.  A scan result Option<(Item, usize)> *)
(* is None or Some(<<item, index>>).                                       *)
(***************************************************************************)
EXTENDS Integers, Sequences, FiniteSets, TLC

VARIABLES
    entries,    \* GenerationalIndexAllocator.entries: Seq of [is_live, generation]
    free,       \* GenerationalIndexAllocator.free: Seq of slot indices (a stack)
    panicked,   \* TRUE once an assert! of the allocator has failed
    op,         \* the last allocator call: [name, arg, ret]
    issued,     \* how many times allocate has returned each GenerationalIndex
    watched,    \* Option: a handle for which deallocate has returned true
    freed,      \* how many deallocate calls on each index have returned true
    peak,       \* the largest number of slots that were live at the same time
    stores,     \* the component storages a query scans, one per leg
    query,      \* the query built over them: [shape, legs]
    qscan,      \* the query's scanner
    mirror,     \* Option: a second scanner that is given the same calls
    calls,      \* the number of scan calls made on the scanner
    result,        \* what the last scan call returned
    mresult,       \* what the last scan call on the mirror returned
    emitted,    \* the indices the scan calls have returned, in call order
    drained,    \* TRUE once a scan call has returned None
    single,     \* Option: what singleton() returned
    dense,      \* a DenseComponentStorage under insert, remove and get calls
    sparse,     \* a SparseComponentStorage given the same calls
    rows,       \* the components put in and not taken out since, by index
    sop,        \* the last storage call: [name, index, dense_ret, sparse_ret]
    world,      \* the LockIds of the resources and component storages a World has
    mlock,      \* each thread's multi_lock call: [pc, tuple, sorted, at, guards, ...]
    content,    \* each resource's and storage's content: [n, by], n writes, the last by `by`
    components, \* Ecs.components: the storage registered for each component type
    eop,        \* the last call on the Ecs: [name, arg, ret]
    ecss,       \* an Ecs and its clone: [entries, free, components], the
                \* components being the addresses of the boxed storages
    heap,       \* the boxed storages, by address
    aborted,    \* TRUE once a call on one of the two has panicked
    cl,         \* the thread that clones the Ecs: [pc, order, at, guards, copies, instant]
    wr,         \* the storages each writer thread holds a write handle on
    eset,       \* an EntitySet
    array,      \* a GenerationalIndexArray: Vec<Option<ArrayEntry>>
    aop         \* the last call on the array: [name, key, ret]

allocVars == <<entries, free, panicked, op, issued, watched, freed, peak>>

scanVars == <<stores, query, qscan, mirror, calls, result, mresult, emitted, drained, single>>

storeVars == <<dense, sparse, rows, sop>>

vars == <<entries, free, panicked, op, issued, watched, freed, peak,
          stores, query, qscan, mirror, calls, result, mresult, emitted, drained, single,
          dense, sparse, rows, sop, world, mlock, content, components, eop,
          ecss, heap, aborted, cl, wr, eset, array, aop>>

lockVars == <<world, mlock, content>>

ecsVars == <<components, eop>>

cloneVars == <<ecss, heap, aborted>>

snapVars == <<cl, wr>>

setVars == <<eset>>

arrayVars == <<array, aop>>

-----------------------------------------------------------------------------
(* Bounds of the model *)

\* the allocator never holds more than MaxSlots slots
MaxSlots == 2

\* no slot is deallocated more than MaxGen times
MaxGen == 2

\* the storages hold components at the indices 0..MaxIndex
MaxIndex == 2

\* a scanner is given at most MaxScans scan calls
MaxScans == 3

\* a resource or storage is written at most MaxWrites times
MaxWrites == 1

\* the Ecs never holds more than MaxEntities entity slots
MaxEntities == 1

\* an EntitySet holds at most MaxSetSize entities
MaxSetSize == 2

\* an Ecs that has a clone, and the clone, remove at most MaxRemovals
\* entities each
MaxRemovals == 1

-----------------------------------------------------------------------------
(* Option<T> *)

None == <<>>

Some(x) == <<x>>

IsSome(o) == o # <<>>

Unwrap(o) == o[1]

unwrap_or(o, d) == IF o = <<>> THEN d ELSE o[1]

Max(a, b) == IF a >= b THEN a ELSE b

-----------------------------------------------------------------------------
(* generational_index.rs: GenerationalIndex and GenerationalIndexAllocator *)

GenerationalIndex(i, g) == [index |-> i, generation |-> g]

AllocatorEntry(l, g) == [is_live |-> l, generation |-> g]

\* The handles a caller can pass: GenerationalIndex is Copy and the
\* allocator is Clone, so a handle may come from another allocator (or an
\* older or newer clone of this one): any index, also one past the end, and
\* any generation.
Handles == {GenerationalIndex(i, g) : i \in 0..MaxSlots, g \in 0..MaxGen}

\* is_live(&self, gen_index) on an allocator with entries `es`
is_live_in(es, gi) ==
    IF gi.index < Len(es)
    THEN es[gi.index + 1].is_live /\ es[gi.index + 1].generation = gi.generation
    ELSE FALSE

is_live(gi) == is_live_in(entries, gi)

\* max_allocated_index(&self)
max_allocated_index_in(es) == Len(es)

\* a live_at_index that does not look at is_live
at_index_in(es, index) ==
    IF index < Len(es)
    THEN Some(GenerationalIndex(index, es[index + 1].generation))
    ELSE None

\* live_at_index(&self, index)
live_at_index_in(es, index) ==
    IF index < Len(es) /\ es[index + 1].is_live
    THEN Some(GenerationalIndex(index, es[index + 1].generation))
    ELSE None

\* the number of live slots of an allocator with entries es
LiveCount(es) == Cardinality({i \in 1..Len(es) : es[i].is_live})

\* a deallocate that forgets to bump the generation
BumpGenerationForgotten(g) == g

\* the generation deallocate stores: generation.checked_add(1); the u64
\* overflow it panics on lies beyond MaxGen
BumpGeneration(g) == g + 1

\* an allocate that bumps the generation of the slot it reuses
allocate_bumps(es, fr) ==
    IF fr # <<>>
    THEN LET index == fr[Len(fr)]
             id_entry == es[index + 1]
         IN  IF id_entry.is_live
             THEN [entries |-> es, free |-> SubSeq(fr, 1, Len(fr) - 1),
                   panic |-> TRUE, ret |-> None]
             ELSE [entries |-> [es EXCEPT ![index + 1] =
                                   AllocatorEntry(TRUE, id_entry.generation + 1)],
                   free |-> SubSeq(fr, 1, Len(fr) - 1),
                   panic |-> FALSE,
                   ret |-> Some(GenerationalIndex(index, id_entry.generation + 1))]
    ELSE [entries |-> Append(es, AllocatorEntry(TRUE, 0)), free |-> fr,
          panic |-> FALSE, ret |-> Some(GenerationalIndex(Len(es), 0))]

\* an allocate that never looks at the free list
allocate_appends(es, fr) ==
    [entries |-> Append(es, AllocatorEntry(TRUE, 0)), free |-> fr,
     panic |-> FALSE, ret |-> Some(GenerationalIndex(Len(es), 0))]

\* allocate(&mut self) on an allocator with entries es and free list fr: pop
\* the free list, or push a new slot.  Gives the allocator after the call,
\* what the call returns, and whether its assert! failed.
allocate(es, fr) ==
    IF fr # <<>>
    THEN LET index == fr[Len(fr)]
             id_entry == es[index + 1]
         IN  IF id_entry.is_live
             THEN [entries |-> es, free |-> SubSeq(fr, 1, Len(fr) - 1),
                   panic |-> TRUE, ret |-> None]     \* assert!(!id_entry.is_live)
             ELSE [entries |-> [es EXCEPT ![index + 1].is_live = TRUE],
                   free |-> SubSeq(fr, 1, Len(fr) - 1),
                   panic |-> FALSE,
                   ret |-> Some(GenerationalIndex(index, id_entry.generation))]
    ELSE [entries |-> Append(es, AllocatorEntry(TRUE, 0)), free |-> fr,
          panic |-> FALSE, ret |-> Some(GenerationalIndex(Len(es), 0))]

\* allocator.allocate()
Allocate ==
    /\ ~panicked
    /\ free = <<>> => Len(entries) < MaxSlots
    /\ LET a == allocate(entries, free)
       IN  /\ entries' = a.entries
           /\ free' = a.free
           /\ panicked' = a.panic
           /\ op' = [name |-> "allocate", ret |-> a.ret]
           /\ issued' = IF IsSome(a.ret)
                        THEN [issued EXCEPT ![Unwrap(a.ret)] = @ + 1]
                        ELSE issued
           /\ peak' = Max(peak, LiveCount(a.entries))
    /\ UNCHANGED <<watched, freed>>
    /\ UNCHANGED <<scanVars, storeVars, lockVars, ecsVars, cloneVars, snapVars, setVars, arrayVars>>

\* a deallocate that does not look at is_live
deallocate_returns_unchecked(es, gen_index) == gen_index.index < Len(es)

\* what deallocate(gen_index) returns on an allocator with entries es
deallocate_returns(es, gen_index) ==
    IF gen_index.index >= Len(es)
    THEN FALSE
    ELSE es[gen_index.index + 1].is_live

\* what deallocate(gen_index) returns in the current state
DeallocateReturns(gen_index) == deallocate_returns(entries, gen_index)

\* deallocate(&mut self, gen_index) on an allocator with entries es and free
\* list fr: the allocator after the call and what the call returns
deallocate(es, fr, gen_index) ==
    IF deallocate_returns(es, gen_index)
    THEN [entries |-> [es EXCEPT ![gen_index.index + 1] =
                          AllocatorEntry(FALSE, BumpGeneration(@.generation))],
          free |-> Append(fr, gen_index.index),
          ret |-> TRUE]
    ELSE [entries |-> es, free |-> fr, ret |-> FALSE]

\* allocator.deallocate(gen_index)
Deallocate(gen_index) ==
    /\ ~panicked
    /\ DeallocateReturns(gen_index) => entries[gen_index.index + 1].generation < MaxGen
    /\ LET d == deallocate(entries, free, gen_index)
       IN  /\ entries' = d.entries
           /\ free' = d.free
           /\ op' = [name |-> "deallocate", arg |-> gen_index, ret |-> d.ret]
           \* the observer may follow a handle that was deallocated
           /\ IF d.ret
              THEN watched' = Some(gen_index) \/ UNCHANGED watched
              ELSE UNCHANGED watched
           /\ freed' = IF d.ret
                       THEN [freed EXCEPT ![gen_index.index] = @ + 1]
                       ELSE freed
    /\ UNCHANGED <<panicked, issued, peak>>
    /\ UNCHANGED <<scanVars, storeVars, lockVars, ecsVars, cloneVars, snapVars, setVars, arrayVars>>

\* GenerationalIndexAllocator::new()
InitAllocator ==
    /\ entries = <<>>
    /\ free = <<>>
    /\ panicked = FALSE
    /\ op = [name |-> "new"]
    /\ issued = [gi \in Handles |-> 0]
    /\ watched = None
    /\ freed = [i \in 0..MaxSlots |-> 0]
    /\ peak = 0

\* no query is built
NoQuery ==
    /\ stores = <<>>
    /\ query = [shape |-> "None", legs |-> <<>>]
    /\ qscan = None
    /\ mirror = None
    /\ calls = 0
    /\ result = None
    /\ mresult = None
    /\ emitted = <<>>
    /\ drained = FALSE
    /\ single = None

\* no storage is under insert and remove calls
NoStorage ==
    /\ dense = <<>>
    /\ sparse = <<>>
    /\ rows = <<>>
    /\ sop = <<>>

\* no thread is locking anything
NoLocks ==
    /\ world = {}
    /\ mlock = <<>>
    /\ content = <<>>

\* no Ecs is under calls
NoEcs ==
    /\ components = <<>>
    /\ eop = <<>>

\* no Ecs is cloned
NoClone ==
    /\ ecss = <<>>
    /\ heap = <<>>
    /\ aborted = FALSE
    /\ cl = <<>>
    /\ wr = <<>>

\* no EntitySet is kept
NoSet == eset = {}

\* no GenerationalIndexArray is kept
NoArray ==
    /\ array = <<>>
    /\ aop = <<>>

Init == InitAllocator /\ NoQuery /\ NoStorage /\ NoLocks /\ NoEcs /\ NoClone /\ NoSet /\ NoArray

Next ==
    \/ Allocate
    \/ \E gi \in Handles : Deallocate(gi)

Spec == Init /\ [][Next]_vars

-----------------------------------------------------------------------------
(* dense_component.rs, sparse_component.rs: the component storages *)

\* component indices the storages are filled at
Indices == 0..MaxIndex

\* The component stored at index i of the storage of leg `leg`.  The
\* storages and scanners are generic in T and never inspect a component, so
\* the payload only has to tell which storage and which row it came from.
Val(leg, i) == 10 * leg + i

\* DenseComponentStorage<T>(Vec<Option<T>>): insert pads with None up to the
\* index and remove leaves a None behind, so the Vec can have any length and
\* any slot of it can be None
DenseContents(leg) ==
    UNION {{[k \in 1..n |-> IF (k - 1) \in P THEN Some(Val(leg, k - 1)) ELSE None]
               : P \in SUBSET (0..(n - 1))} : n \in 0..(MaxIndex + 1)}

\* SparseComponentStorage<T>(BTreeMap<usize, T>)
SparseContents(leg) == {[i \in P |-> Val(leg, i)] : P \in SUBSET Indices}

DenseComponentStorage(vec) == [type |-> "dense", vec |-> vec]

SparseComponentStorage(map) == [type |-> "sparse", map |-> map]

\* ComponentStorage::get(&self, index)
StorageGet(st, index) ==
    IF st.type = "dense"
    THEN IF index < Len(st.vec) THEN st.vec[index + 1] ELSE None
    ELSE IF index \in DOMAIN st.map THEN Some(st.map[index]) ELSE None

RECURSIVE PadTo(_, _)
\* while index >= self.0.len() { self.0.push(None) }
PadTo(vec, index) ==
    IF index >= Len(vec) THEN PadTo(Append(vec, None), index) ELSE vec

\* an insert whose dense side drops the component it replaces
StorageInsertForgetsOld(st, index, component) ==
    IF st.type = "dense"
    THEN [st |-> DenseComponentStorage(
                     [PadTo(st.vec, index) EXCEPT ![index + 1] = Some(component)]),
          r |-> None]
    ELSE [st |-> SparseComponentStorage(
                     [i \in DOMAIN st.map \cup {index} |->
                         IF i = index THEN component ELSE st.map[i]]),
          r |-> StorageGet(st, index)]

\* an insert whose dense side cuts the Vec off behind the index it writes
StorageInsertTruncates(st, index, component) ==
    IF st.type = "dense"
    THEN LET padded == PadTo(st.vec, index)
         IN  [st |-> DenseComponentStorage(
                         SubSeq([padded EXCEPT ![index + 1] = Some(component)],
                                1, index + 1)),
              r |-> padded[index + 1]]
    ELSE [st |-> SparseComponentStorage(
                     [i \in DOMAIN st.map \cup {index} |->
                         IF i = index THEN component ELSE st.map[i]]),
          r |-> StorageGet(st, index)]

\* ComponentStorage::insert(&mut self, index, component): the storage after
\* the call, st, and the component it replaced, r
StorageInsert(st, index, component) ==
    IF st.type = "dense"
    THEN LET padded == PadTo(st.vec, index)
         IN  [st |-> DenseComponentStorage([padded EXCEPT ![index + 1] = Some(component)]),
              r |-> padded[index + 1]]
    ELSE [st |-> SparseComponentStorage(
                     [i \in DOMAIN st.map \cup {index} |->
                         IF i = index THEN component ELSE st.map[i]]),
          r |-> StorageGet(st, index)]

\* a remove that hands the component out and leaves it in the storage
StorageRemoveKeeps(st, index) == [st |-> st, r |-> StorageGet(st, index)]

\* ComponentStorage::remove(&mut self, index): the storage after the call,
\* st, and the component taken out, r
StorageRemove(st, index) ==
    IF st.type = "dense"
    THEN IF index < Len(st.vec)
         THEN [st |-> DenseComponentStorage([st.vec EXCEPT ![index + 1] = None]),
               r |-> st.vec[index + 1]]
         ELSE [st |-> st, r |-> None]
    ELSE [st |-> SparseComponentStorage(
                     [i \in DOMAIN st.map \ {index} |-> st.map[i]]),
          r |-> StorageGet(st, index)]

RECURSIVE Ascending(_)
\* the elements of a finite set of numbers in ascending order
Ascending(S) ==
    IF S = {} THEN <<>>
    ELSE LET m == CHOOSE x \in S : \A y \in S : x <= y
         IN  <<m>> \o Ascending(S \ {m})

\* BTreeMap::range(lo..): the (key, value) entries with key >= lo, in key
\* order; the sequence is what the iterator has still to yield
BTreeRange(map, lo) ==
    LET keys == Ascending({k \in DOMAIN map : k >= lo})
    IN  [n \in 1..Len(keys) |-> <<keys[n], map[keys[n]]>>]

\* Iterator::nth(n) on the rest of a slice or map iterator: skips n elements
\* and yields the next one; the iterator is left empty when it runs out
IterNth(iter, n) ==
    IF n < Len(iter)
    THEN [iter |-> SubSeq(iter, n + 2, Len(iter)), r |-> Some(iter[n + 1])]
    ELSE [iter |-> <<>>, r |-> None]

\* Iterator::next()
IterNext(iter) == IterNth(iter, 0)

-----------------------------------------------------------------------------
(* The scanners.  A scanner is a record of its Rust fields; a reference to a *)
(* storage or to the allocator is the (immutable, borrowed) value itself.    *)
(* Scan(s, until) is ComponentScanner::scan(&mut self, until): it gives the  *)
(* scanner after the call, s, and the value returned, r.                     *)

RECURSIVE Scan(_, _)

\* ComponentStorage::scan for DenseComponentStorage
DenseScan(vec) == [kind |-> "Dense", next_index |-> 0, slice |-> vec]

\* ComponentStorage::scan_mut for DenseComponentStorage
DenseScanMut(vec) == [kind |-> "DenseMut", next_index |-> 0, iter |-> vec]

\* ComponentStorage::scan for SparseComponentStorage
SparseScan(map) == [kind |-> "Sparse", map |-> map, iter |-> BTreeRange(map, 0)]

\* ComponentStorage::scan_mut for SparseComponentStorage
SparseScanMut(map) == [kind |-> "SparseMut", iter |-> BTreeRange(map, 0)]

RECURSIVE DenseLoop(_, _)
\* the loop of DenseComponentScanner::scan, from index i
DenseLoop(slice, i) ==
    IF i >= Len(slice)
    THEN [next_index |-> i + 1, r |-> None]
    ELSE IF IsSome(slice[i + 1])
         THEN [next_index |-> i + 1, r |-> Some(<<Unwrap(slice[i + 1]), i>>)]
         ELSE DenseLoop(slice, i + 1)

\* a scan that starts from until, forgetting the position it had reached
ScanDenseRewinds(s, until) ==
    LET out == DenseLoop(s.slice, unwrap_or(until, 0))
    IN  [s |-> [s EXCEPT !.next_index = out.next_index], r |-> out.r]

\* DenseComponentScanner::scan
ScanDense(s, until) ==
    LET out == DenseLoop(s.slice, Max(s.next_index, unwrap_or(until, 0)))
    IN  [s |-> [s EXCEPT !.next_index = out.next_index], r |-> out.r]

RECURSIVE DenseMutLoop(_, _)
\* the loop of DenseComponentScannerMut::scan
DenseMutLoop(s, until) ==
    LET until0 == unwrap_or(until, 0)
        jump == until0 > s.next_index
        step == IF jump THEN IterNth(s.iter, until0 - s.next_index)
                        ELSE IterNext(s.iter)
        i == IF jump THEN until0 ELSE s.next_index
        s1 == [s EXCEPT !.iter = step.iter, !.next_index = i + 1]
    IN  IF step.r = None
        THEN [s |-> s1, r |-> None]
        ELSE IF IsSome(Unwrap(step.r))
             THEN [s |-> s1, r |-> Some(<<Unwrap(Unwrap(step.r)), i>>)]
             ELSE DenseMutLoop(s1, until)

\* DenseComponentScannerMut::scan
ScanDenseMut(s, until) == DenseMutLoop(s, until)

\* SparseComponentScanner::scan
ScanSparse(s, until) ==
    LET until0 == unwrap_or(until, 0)
        first == IterNext(s.iter)
    IN  IF IsSome(first.r)
        THEN IF Unwrap(first.r)[1] >= until0
             THEN [s |-> [s EXCEPT !.iter = first.iter],
                   r |-> Some(<<Unwrap(first.r)[2], Unwrap(first.r)[1]>>)]
             ELSE LET second == IterNext(BTreeRange(s.map, until0))
                  IN  [s |-> [s EXCEPT !.iter = second.iter],
                       r |-> IF IsSome(second.r)
                             THEN Some(<<Unwrap(second.r)[2], Unwrap(second.r)[1]>>)
                             ELSE None]
        ELSE [s |-> [s EXCEPT !.iter = first.iter], r |-> None]

RECURSIVE SparseMutLoop(_, _)
\* the while-let loop of SparseComponentScannerMut::scan
SparseMutLoop(s, until) ==
    LET step == IterNext(s.iter)
        s1 == [s EXCEPT !.iter = step.iter]
    IN  IF IsSome(step.r)
        THEN IF until = None \/ Unwrap(step.r)[1] >= Unwrap(until)
             THEN [s |-> s1, r |-> Some(<<Unwrap(step.r)[2], Unwrap(step.r)[1]>>)]
             ELSE SparseMutLoop(s1, until)
        ELSE [s |-> s1, r |-> None]

\* SparseComponentScannerMut::scan
ScanSparseMut(s, until) == SparseMutLoop(s, until)

-----------------------------------------------------------------------------
(* entity.rs: Entity, EntityScanner, EntitySetScanner *)

\* Entity(GenerationalIndex), a newtype
Entity(gi) == gi

\* Ord for Entity, derived: by index, then by generation
EntityLess(a, b) ==
    a.index < b.index \/ (a.index = b.index /\ a.generation < b.generation)

RECURSIVE BTreeSetIter(_)
\* btree_set::Iter over an EntitySet: its members in Ord order
BTreeSetIter(set) ==
    IF set = {} THEN <<>>
    ELSE LET m == CHOOSE x \in set : \A y \in set \ {x} : EntityLess(x, y)
         IN  <<m>> \o BTreeSetIter(set \ {m})

\* EntityAllocator::scan_live: EntityScanner(0, &allocator)
ScanLive(alloc) == [kind |-> "Entity", pos |-> 0, alloc |-> alloc]

\* EntityAllocator::scan_set: EntitySetScanner(set.iter(), &allocator)
ScanSet(alloc, set) ==
    [kind |-> "EntitySet", iter |-> BTreeSetIter(set), alloc |-> alloc]

RECURSIVE EntityLoop(_)
\* the while loop of EntityScanner::scan; a live slot is returned without
\* moving the position past it
EntityLoop(s) ==
    IF s.pos < max_allocated_index_in(s.alloc)
    THEN LET gen_index == live_at_index_in(s.alloc, s.pos)
         IN  IF IsSome(gen_index)
             THEN [s |-> s, r |-> Some(<<Entity(Unwrap(gen_index)), s.pos>>)]
             ELSE EntityLoop([s EXCEPT !.pos = @ + 1])
    ELSE [s |-> s, r |-> None]

\* EntityScanner::scan
ScanEntity(s, until) ==
    EntityLoop(IF IsSome(until) /\ Unwrap(until) > s.pos
               THEN [s EXCEPT !.pos = Unwrap(until)]
               ELSE s)

RECURSIVE EntitySetLoop(_, _)
\* the while-let loop of EntitySetScanner::scan
EntitySetLoop(s, until) ==
    LET step == IterNext(s.iter)
        s1 == [s EXCEPT !.iter = step.iter]
    IN  IF IsSome(step.r)
        THEN LET entity == Unwrap(step.r)
             IN  IF /\ (until = None \/ entity.index >= Unwrap(until))
                    /\ is_live_in(s.alloc, entity)
                 THEN [s |-> s1, r |-> Some(<<entity, entity.index>>)]
                 ELSE EntitySetLoop(s1, until)
        ELSE [s |-> s1, r |-> None]

\* an EntitySetScanner that returns the members whose index is not below
\* until, live or not
ScanEntitySetUnfiltered(s, until) ==
    LET step == IterNext(s.iter)
        s1 == [s EXCEPT !.iter = step.iter]
    IN  IF IsSome(step.r) /\ until # None /\ Unwrap(step.r).index < Unwrap(until)
        THEN EntitySetLoop(s1, until)
        ELSE [s |-> s1,
              r |-> IF IsSome(step.r)
                    THEN Some(<<Unwrap(step.r), Unwrap(step.r).index>>) ELSE None]

\* EntitySetScanner::scan
ScanEntitySet(s, until) == EntitySetLoop(s, until)

-----------------------------------------------------------------------------
(* component_scanner.rs: the combinators.  A tuple is a sequence. *)

\* the functions given to ComponentScannerMap: fst of limit, the closures of
\* impl_tuple, and "tag", a caller's own function
Apply(function, item) ==
    CASE function = "fst" -> item[1]                     \* |(i, _)| i
      [] function = "snd" -> item[2]
      [] function = "tuple1" -> <<item>>                 \* |item| (item,)
      [] function = "flatten" -> <<item[1]>> \o item[2]  \* |(a, (b, ..))| (a, b, ..)
      [] function = "tag" -> <<"tag", item>>

\* Option<(Item, usize)>::map(|(item, id)| (f(item), id))
MapItem(function, r) ==
    IF IsSome(r) THEN Some(<<Apply(function, Unwrap(r)[1]), Unwrap(r)[2]>>) ELSE None

\* Option<(Item, usize)>::map(|(_, ind)| ind)
IndexOf(r) == IF IsSome(r) THEN Some(Unwrap(r)[2]) ELSE None

\* ComponentScanner::map
MakeMap(scanner, function) ==
    [kind |-> "Map", scanner |-> scanner, function |-> function]

\* ComponentScanner::opt: scans the first entry ahead
MakeOpt(scanner) ==
    LET first == Scan(scanner, None)
    IN  [kind |-> "Opt", scanner |-> first.s, current |-> 0, next |-> first.r]

\* ComponentScannerJoin(H, T)
MakeJoin(h, t) == [kind |-> "Join", h |-> h, t |-> t]

\* limit picks snd instead of fst
LimitFunctionSwapped == "snd"

\* the function ComponentScanner::limit maps over the join: fst
LimitFunction == "fst"

\* ComponentScanner::limit
MakeLimit(scanner, and) == MakeMap(MakeJoin(scanner, and), LimitFunction)

\* a not that does not scan the first entry of `not` ahead
MakeNotUnprimed(scanner, not) ==
    [kind |-> "Not", scanner |-> scanner, not_scanner |-> not, next_not |-> None]

\* ComponentScanner::not: scans the first entry of `not` ahead
MakeNot(scanner, not) ==
    LET first == Scan(not, None)
    IN  [kind |-> "Not", scanner |-> scanner, not_scanner |-> first.s,
         next_not |-> IndexOf(first.r)]

RECURSIVE TupleJoin(_)
\* ComponentScannerTuple::join (impl_tuple): a right-nested join, reshaped
TupleJoin(t) ==
    IF Len(t) = 1
    THEN MakeMap(t[1], "tuple1")
    ELSE MakeMap(MakeJoin(t[1], TupleJoin(Tail(t))), "flatten")

\* component_scan_join
component_scan_join(t) == TupleJoin(t)

\* ComponentScannerMap::scan
ScanMap(s, until) ==
    LET inner == Scan(s.scanner, until)
    IN  [s |-> [s EXCEPT !.scanner = inner.s], r |-> MapItem(s.function, inner.r)]

RECURSIVE NotInner(_, _, _)
RECURSIVE NotBegin(_, _)
\* the inner loop of ComponentScannerNot::scan, for the entry `found` of
\* self.scanner
NotInner(s, until, found) ==
    LET index == Unwrap(found)[2]
    IN  IF IsSome(s.next_not) /\ Unwrap(s.next_not) < index
        THEN LET adv == Scan(s.not_scanner, Some(index))
             IN  NotInner([s EXCEPT !.not_scanner = adv.s, !.next_not = IndexOf(adv.r)],
                          until, found)
        ELSE IF IsSome(s.next_not) /\ Unwrap(s.next_not) = index
             THEN NotBegin(s, until)                  \* continue 'begin
             ELSE [s |-> s, r |-> found]

\* the 'begin loop of ComponentScannerNot::scan
NotBegin(s, until) ==
    LET inner == Scan(s.scanner, until)
        s1 == [s EXCEPT !.scanner = inner.s]
    IN  IF IsSome(inner.r) THEN NotInner(s1, until, inner.r) ELSE [s |-> s1, r |-> None]

\* ComponentScannerNot::scan
ScanNot(s, until) == NotBegin(s, until)

RECURSIVE OptLoop(_)
\* the loop of ComponentScannerOpt::scan
OptLoop(s) ==
    IF IsSome(s.next)                                   \* self.next.take()
    THEN LET next_value == Unwrap(s.next)[1]
             next_index == Unwrap(s.next)[2]
         IN  IF s.current > next_index
             THEN LET adv == Scan(s.scanner, Some(s.current))
                  IN  OptLoop([s EXCEPT !.scanner = adv.s, !.next = adv.r])
             ELSE IF s.current = next_index
                  THEN LET adv == Scan(s.scanner, None)
                       IN  [s |-> [s EXCEPT !.current = @ + 1, !.scanner = adv.s,
                                            !.next = adv.r],
                            r |-> Some(<<Some(next_value), s.current>>)]
                  ELSE [s |-> [s EXCEPT !.current = @ + 1],
                        r |-> Some(<<None, s.current>>)]
    ELSE [s |-> [s EXCEPT !.current = @ + 1], r |-> Some(<<None, s.current>>)]

\* an opt that does not move its position up to until
ScanOptIgnoresUntil(s, until) == OptLoop(s)

\* ComponentScannerOpt::scan
ScanOpt(s, until) ==
    LET until0 == unwrap_or(until, 0)
    IN  OptLoop(IF s.current < until0 THEN [s EXCEPT !.current = until0] ELSE s)

RECURSIVE JoinLoop(_, _, _)
\* a join loop that asks the first side for an entry past the second side's
JoinLoopOvershoots(s, r1, r2) ==
    LET id1 == Unwrap(r1)[2]
        id2 == Unwrap(r2)[2]
    IN  IF id1 < id2
        THEN LET res == Scan(s.h, Some(id2 + 1))
                 s1 == [s EXCEPT !.h = res.s]
             IN  IF IsSome(res.r) THEN JoinLoop(s1, res.r, r2) ELSE [s |-> s1, r |-> None]
        ELSE IF id1 > id2
             THEN LET res == Scan(s.t, Some(id1))
                      s1 == [s EXCEPT !.t = res.s]
                  IN  IF IsSome(res.r) THEN JoinLoop(s1, r1, res.r)
                      ELSE [s |-> s1, r |-> None]
             ELSE [s |-> s, r |-> Some(<<<<Unwrap(r1)[1], Unwrap(r2)[1]>>, id1>>)]

\* the loop of ComponentScannerJoin::scan, holding entry r1 of self.0 and
\* entry r2 of self.1
JoinLoop(s, r1, r2) ==
    LET id1 == Unwrap(r1)[2]
        id2 == Unwrap(r2)[2]
    IN  IF id1 < id2
        THEN LET res == Scan(s.h, Some(id2))
                 s1 == [s EXCEPT !.h = res.s]
             IN  IF IsSome(res.r) THEN JoinLoop(s1, res.r, r2) ELSE [s |-> s1, r |-> None]
        ELSE IF id1 > id2
             THEN LET res == Scan(s.t, Some(id1))
                      s1 == [s EXCEPT !.t = res.s]
                  IN  IF IsSome(res.r) THEN JoinLoop(s1, r1, res.r)
                      ELSE [s |-> s1, r |-> None]
             ELSE [s |-> s, r |-> Some(<<<<Unwrap(r1)[1], Unwrap(r2)[1]>>, id1>>)]

\* ComponentScannerJoin::scan: both sides are scanned before the match
ScanJoin(s, until) ==
    LET r1 == Scan(s.h, until)
        r2 == Scan(s.t, until)
        s1 == [s EXCEPT !.h = r1.s, !.t = r2.s]
    IN  IF IsSome(r1.r) /\ IsSome(r2.r)
        THEN JoinLoop(s1, r1.r, r2.r)
        ELSE [s |-> s1, r |-> None]

\* ComponentScanner::scan, dispatched on the type of the scanner
Scan(s, until) ==
    CASE s.kind = "Dense" -> ScanDense(s, until)
      [] s.kind = "DenseMut" -> ScanDenseMut(s, until)
      [] s.kind = "Sparse" -> ScanSparse(s, until)
      [] s.kind = "SparseMut" -> ScanSparseMut(s, until)
      [] s.kind = "Entity" -> ScanEntity(s, until)
      [] s.kind = "EntitySet" -> ScanEntitySet(s, until)
      [] s.kind = "Map" -> ScanMap(s, until)
      [] s.kind = "Not" -> ScanNot(s, until)
      [] s.kind = "Opt" -> ScanOpt(s, until)
      [] s.kind = "Join" -> ScanJoin(s, until)

RECURSIVE IterTake(_, _)
\* scanner.iter().take(n).collect(): ComponentScannerIterator::next is
\* scan(None) with the index dropped, and the iteration ends at the first None
IterTake(s, n) ==
    IF n = 0 THEN <<>>
    ELSE LET out == Scan(s, None)
         IN  IF out.r = None THEN <<>>
             ELSE <<Unwrap(out.r)[1]>> \o IterTake(out.s, n - 1)

\* Result<Item, ComponentSingletonError>
Ok(item) == [tag |-> "Ok", val |-> item]

Err(e) == [tag |-> "Err", val |-> e]

\* ComponentScanner::singleton(self)
Singleton(s) ==
    LET first == Scan(s, None)
    IN  IF first.r = None
        THEN Err("Missing")              \* ok_or(ComponentSingletonError::Missing)?
        ELSE IF IsSome(Scan(first.s, None).r)
             THEN Err("Multiple")
             ELSE Ok(Unwrap(first.r)[1])

-----------------------------------------------------------------------------
(* Queries: a scanner is built over storages and then scanned *)

\* the four storage scanners
Kinds == {"Dense", "DenseMut", "Sparse", "SparseMut"}

\* the storages the scanner of kind `kind` can be taken from, for leg `leg`
Contents(kind, leg) ==
    IF kind \in {"Dense", "DenseMut"}
    THEN {DenseComponentStorage(v) : v \in DenseContents(leg)}
    ELSE {SparseComponentStorage(m) : m \in SparseContents(leg)}

\* the storages of a query's legs
StoresFor(legs) ==
    CASE Len(legs) = 0 -> {<<>>}
      [] Len(legs) = 1 -> {<<a>> : a \in Contents(legs[1], 1)}
      [] Len(legs) = 2 ->
            {<<a, b>> : a \in Contents(legs[1], 1), b \in Contents(legs[2], 2)}
      [] Len(legs) = 3 ->
            {<<a, b, c>> : a \in Contents(legs[1], 1), b \in Contents(legs[2], 2),
                           c \in Contents(legs[3], 3)}

\* storage.scan() or storage.scan_mut()
Leaf(kind, st) ==
    CASE kind = "Dense" -> DenseScan(st.vec)
      [] kind = "DenseMut" -> DenseScanMut(st.vec)
      [] kind = "Sparse" -> SparseScan(st.map)
      [] kind = "SparseMut" -> SparseScanMut(st.map)

\* the scanner of query q over the storages st and the allocator entries es
Build(q, st, es) ==
    CASE q.shape = "Scan" -> Leaf(q.legs[1], st[1])
      [] q.shape = "Map" -> MakeMap(Leaf(q.legs[1], st[1]), "tag")
      [] q.shape = "Opt" -> MakeOpt(Leaf(q.legs[1], st[1]))
      [] q.shape = "Entities" -> ScanLive(es)
      [] q.shape = "EntityJoin" ->
            component_scan_join(<<ScanLive(es)>> \o
                                [j \in 1..Len(q.legs) |-> Leaf(q.legs[j], st[j])])
      [] q.shape = "Join" ->
            component_scan_join(<<Leaf(q.legs[1], st[1]), Leaf(q.legs[2], st[2])>>)
      [] q.shape = "Join3" ->
            component_scan_join(<<Leaf(q.legs[1], st[1]), Leaf(q.legs[2], st[2]),
                                  Leaf(q.legs[3], st[3])>>)
      [] q.shape = "Not" -> MakeNot(Leaf(q.legs[1], st[1]), Leaf(q.legs[2], st[2]))
      [] q.shape = "Limit" -> MakeLimit(Leaf(q.legs[1], st[1]), Leaf(q.legs[2], st[2]))

\* the scanner a Limit query is compared with: the join of the same legs
BuildMirror(q, st) ==
    IF q.shape = "Limit"
    THEN Some(component_scan_join(<<Leaf(q.legs[1], st[1]), Leaf(q.legs[2], st[2])>>))
    ELSE None

\* The allocator states a scan of the entities can meet: a dead slot has been
\* deallocated at least once.  The free list holds the dead slots.
AllocatorEntries ==
    UNION {{es \in [1..n -> {AllocatorEntry(l, g) : l \in BOOLEAN, g \in 0..MaxGen}] :
               \A k \in 1..n : es[k].is_live \/ es[k].generation >= 1}
           : n \in 0..MaxSlots}

\* the until arguments of the scan calls
Untils == {None} \cup {Some(u) : u \in 0..(MaxIndex + 1)}

\* the state after query q has been built, for every content of its storages
InitQuery(q) ==
    /\ query = q
    /\ stores \in StoresFor(q.legs)
    /\ IF q.shape = "Entities"
       THEN entries \in AllocatorEntries
       ELSE IF q.shape = "EntityJoin"
       THEN entries \in {es \in AllocatorEntries : \A k \in 1..Len(es) : es[k].generation <= 1}
       ELSE entries = <<>>
    /\ free = Ascending({i \in 0..(Len(entries) - 1) : ~entries[i + 1].is_live})
    /\ panicked = FALSE
    /\ op = [name |-> "new"]
    /\ issued = [gi \in Handles |-> 0]
    /\ watched = None
    /\ freed = [i \in 0..MaxSlots |-> 0]
    /\ peak = 0
    /\ qscan = Build(q, stores, entries)
    /\ mirror = BuildMirror(q, stores)
    /\ calls = 0
    /\ result = None
    /\ mresult = None
    /\ emitted = <<>>
    /\ drained = FALSE
    /\ single = None
    /\ NoStorage
    /\ NoLocks
    /\ NoEcs
    /\ NoClone /\ NoSet /\ NoArray

\* qscan.scan(until)
ScanCall(until) ==
    /\ query.shape # "None"
    /\ single = None
    /\ calls < MaxScans
    /\ LET out == Scan(qscan, until)
       IN  /\ qscan' = out.s
           /\ result' = out.r
           /\ emitted' = IF IsSome(out.r) THEN Append(emitted, Unwrap(out.r)[2])
                         ELSE emitted
           /\ drained' = (drained \/ out.r = None)
    /\ IF IsSome(mirror)
       THEN LET m == Scan(Unwrap(mirror), until)
            IN  mirror' = Some(m.s) /\ mresult' = m.r
       ELSE UNCHANGED <<mirror, mresult>>
    /\ calls' = calls + 1
    /\ UNCHANGED <<stores, query, single>>
    /\ UNCHANGED allocVars
    /\ UNCHANGED storeVars
    /\ UNCHANGED lockVars
    /\ UNCHANGED <<ecsVars, cloneVars, snapVars, setVars, arrayVars>>

\* qscan.singleton(), which takes the qscan by value
SingletonCall ==
    /\ single = None
    /\ calls = 0
    /\ single' = Some(Singleton(qscan))
    /\ UNCHANGED <<stores, query, qscan, mirror, calls, result, mresult, emitted, drained>>
    /\ UNCHANGED allocVars
    /\ UNCHANGED storeVars
    /\ UNCHANGED lockVars
    /\ UNCHANGED <<ecsVars, cloneVars, snapVars, setVars, arrayVars>>

NextScan ==
    \/ \E until \in Untils : ScanCall(until)
    \/ SingletonCall

\* storage scans alone, mapped and under opt, and the scan of the live entities
ScanQueries ==
    {[shape |-> sh, legs |-> <<k>>] : sh \in {"Scan", "Map", "Opt"}, k \in Kinds}
        \cup {[shape |-> "Entities", legs |-> <<>>]}

InitScan == \E q \in ScanQueries : InitQuery(q)

SpecScan == InitScan /\ [][NextScan]_vars

\* component_scan_join over two and three storage scans
JoinQueries ==
    {[shape |-> "Join", legs |-> <<k1, k2>>] : k1 \in Kinds, k2 \in Kinds}
        \cup {[shape |-> "Join3", legs |-> <<"Dense", "Sparse", "SparseMut">>],
              [shape |-> "Join3", legs |-> <<"Sparse", "SparseMut", "DenseMut">>]}

InitJoin == \E q \in JoinQueries : InitQuery(q)

SpecJoin == InitJoin /\ [][NextScan]_vars

\* component_scan_join over scan_entities() and one or two storage scans;
\* the entities are in their first or second generation
EntityJoinQueries ==
    {[shape |-> "EntityJoin", legs |-> <<k>>] : k \in Kinds}
        \cup {[shape |-> "EntityJoin", legs |-> <<"SparseMut", "Sparse">>]}

InitEntityJoin == \E q \in EntityJoinQueries : InitQuery(q)

SpecEntityJoin == InitEntityJoin /\ [][NextScan]_vars

\* a.not(b) over two storage scans
NotQueries ==
    {[shape |-> "Not", legs |-> <<k1, k2>>] : k1 \in Kinds, k2 \in Kinds}

InitNot == \E q \in NotQueries : InitQuery(q)

SpecNot == InitNot /\ [][NextScan]_vars

\* a.limit(b) over two storage scans, with component_scan_join((a, b)) over
\* the same storages as the mirror
LimitQueries ==
    {[shape |-> "Limit", legs |-> <<k1, k2>>] : k1 \in Kinds, k2 \in Kinds}

InitLimit == \E q \in LimitQueries : InitQuery(q)

SpecLimit == InitLimit /\ [][NextScan]_vars

-----------------------------------------------------------------------------
(* A dense and a sparse storage under the same insert, remove and get calls, *)
(* and then scanned side by side                                             *)

\* the components a caller inserts at index i
Components(i) == {Val(1, i), Val(2, i)}

\* DenseComponentStorage::new(), SparseComponentStorage::new()
InitStorage ==
    /\ InitAllocator
    /\ NoQuery
    /\ dense = DenseComponentStorage(<<>>)
    /\ sparse = SparseComponentStorage(<<>>)
    /\ rows = <<>>
    /\ sop = [name |-> "new"]
    /\ NoLocks
    /\ NoEcs
    /\ NoClone /\ NoSet /\ NoArray

\* insert(index, component) on both storages
InsertCall(index, component) ==
    /\ query.shape = "None"
    /\ LET d == StorageInsert(dense, index, component)
           s == StorageInsert(sparse, index, component)
       IN  /\ dense' = d.st
           /\ sparse' = s.st
           /\ sop' = [name |-> "insert", index |-> index,
                      dense_ret |-> d.r, sparse_ret |-> s.r]
    /\ rows' = [i \in DOMAIN rows \cup {index} |->
                   IF i = index THEN component ELSE rows[i]]
    /\ UNCHANGED allocVars
    /\ UNCHANGED scanVars
    /\ UNCHANGED lockVars
    /\ UNCHANGED <<ecsVars, cloneVars, snapVars, setVars, arrayVars>>

\* remove(index) on both storages
RemoveCall(index) ==
    /\ query.shape = "None"
    /\ LET d == StorageRemove(dense, index)
           s == StorageRemove(sparse, index)
       IN  /\ dense' = d.st
           /\ sparse' = s.st
           /\ sop' = [name |-> "remove", index |-> index,
                      dense_ret |-> d.r, sparse_ret |-> s.r]
    /\ rows' = [i \in DOMAIN rows \ {index} |-> rows[i]]
    /\ UNCHANGED allocVars
    /\ UNCHANGED scanVars
    /\ UNCHANGED lockVars
    /\ UNCHANGED <<ecsVars, cloneVars, snapVars, setVars, arrayVars>>

\* get(index) on both storages
GetCall(index) ==
    /\ query.shape = "None"
    /\ sop' = [name |-> "get", index |-> index,
               dense_ret |-> StorageGet(dense, index),
               sparse_ret |-> StorageGet(sparse, index)]
    /\ UNCHANGED <<dense, sparse, rows>>
    /\ UNCHANGED allocVars
    /\ UNCHANGED scanVars
    /\ UNCHANGED lockVars
    /\ UNCHANGED <<ecsVars, cloneVars, snapVars, setVars, arrayVars>>

\* the queries the two storages are scanned under: their scan() and
\* scan_mut() alone, under opt, and joined with, limited by and set against
\* the scan of a second storage ("NotOf": the second storage's scan with the
\* storage's entries taken out)
SideShapes == {"Scan", "Opt", "Join", "Limit", "Not", "NotOf"}

\* the scanner of shape sh over storage st, scanned as `kind`, and a second
\* storage `other`
SideBuild(sh, kind, st, other) ==
    IF sh = "NotOf"
    THEN MakeNot(SparseScan(other.map), Leaf(kind, st))
    ELSE Build([shape |-> sh, legs |-> <<kind, "Sparse">>], <<st, other>>, <<>>)

\* scan() or scan_mut() is taken from both storages and put under the same
\* combinator
BuildScanners(sh, mut, other) ==
    /\ query.shape = "None"
    /\ query' = [shape |-> sh, legs |-> <<IF mut THEN "DenseMut" ELSE "Dense", "Sparse">>]
    /\ stores' = <<dense, other>>
    /\ qscan' = SideBuild(sh, IF mut THEN "DenseMut" ELSE "Dense", dense, other)
    /\ mirror' = Some(SideBuild(sh, IF mut THEN "SparseMut" ELSE "Sparse", sparse, other))
    /\ sop' = [name |-> "scan"]
    /\ UNCHANGED <<calls, result, mresult, emitted, drained, single>>
    /\ UNCHANGED <<dense, sparse, rows>>
    /\ UNCHANGED allocVars
    /\ UNCHANGED lockVars
    /\ UNCHANGED <<ecsVars, cloneVars, snapVars, setVars, arrayVars>>

\* the second storage of a query with one: any sparse storage
Others(sh) ==
    IF sh \in {"Scan", "Opt"} THEN {SparseComponentStorage(<<>>)}
    ELSE {SparseComponentStorage(m) : m \in SparseContents(3)}

NextStorage ==
    \/ \E index \in Indices : \E component \in Components(index) :
          InsertCall(index, component)
    \/ \E index \in Indices : RemoveCall(index)
    \/ \E index \in 0..(MaxIndex + 1) : GetCall(index)
    \/ \E sh \in SideShapes : \E mut \in BOOLEAN : \E other \in Others(sh) :
          BuildScanners(sh, mut, other)
    \/ \E until \in Untils : ScanCall(until)

SpecStorage == InitStorage /\ [][NextStorage]_vars

-----------------------------------------------------------------------------
(* world.rs, world_multi_lock.rs: threads calling World::multi_lock on one   *)
(* World.  Every resource and every component storage sits in its own       *)
(* std::sync::RwLock; a guard is [id, write].                                *)

Threads == {"t1", "t2"}

\* TypeId::of::<T>() of the types involved: opaque, totally ordered values
TypeIds == {1, 2}

\* LockId::Resource(TypeId), LockId::Component(TypeId)
LockId(kind, type) == [kind |-> kind, type |-> type]

LockIds == {LockId(k, t) : k \in {"Resource", "Component"}, t \in TypeIds}

\* derive(Ord) on LockId: Resource before Component, then by TypeId
LockIdLess(a, b) ==
    IF a.kind = b.kind THEN a.type < b.type ELSE a.kind = "Resource"

\* ReadResource<T>, WriteResource<T>, ReadComponent<T>, WriteComponent<T>
Locker(kind, type, write) == [id |-> LockId(kind, type), write |-> write]

Lockers == {Locker(k, t, w) : k \in {"Resource", "Component"}, t \in TypeIds, w \in BOOLEAN}

\* the tuples M of multi_lock::<M>(): of one and of two lockers
LockerTuples == {<<a>> : a \in Lockers} \cup {<<a, b>> : a \in Lockers, b \in Lockers}

\* the Worlds: every resource inserted and every component registered, or
\* all but one of them
Worlds == {LockIds} \cup {LockIds \ {id} : id \in LockIds}

RECURSIVE InsertSorted(_, _, _)
\* a slot of tuple m put into a sorted sequence of slots, behind every slot
\* whose LockId is not greater (the sort is stable)
InsertSorted(m, sorted, slot) ==
    IF sorted = <<>> THEN <<slot>>
    ELSE IF LockIdLess(m[slot].id, m[Head(sorted)].id)
         THEN <<slot>> \o sorted
         ELSE <<Head(sorted)>> \o InsertSorted(m, Tail(sorted), slot)

RECURSIVE SortPrefix(_, _)
\* the first n slots of tuple m, sorted by LockId
SortPrefix(m, n) ==
    IF n = 0 THEN <<>> ELSE InsertSorted(m, SortPrefix(m, n - 1), n)

\* lockers that are run in the declared order
SortLockersDeclared(m) == [i \in 1..Len(m) |-> i]

\* lockers.sort_by(|a, b| a.0.cmp(&b.0)): the slots of m in the order their
\* lockers are run
SortLockers(m) == SortPrefix(m, Len(m))

\* the guard a locker stores once it has locked
Guard(locker) == [id |-> locker.id, write |-> locker.write]

\* a thread that has not called multi_lock
Idle ==
    [pc |-> "idle", tuple |-> <<>>, sorted |-> <<>>, at |-> 0, guards |-> <<>>,
     acquired |-> <<>>, handles |-> None]

\* the guards a call holds: those its lockers have stored and those in the
\* handles it has returned
HeldGuards(c) ==
    {c.guards[i][1] : i \in {j \in DOMAIN c.guards : c.guards[j] # None}}
        \cup (IF c.pc = "holding"
              THEN {Unwrap(c.handles).val[i] : i \in DOMAIN Unwrap(c.handles).val}
              ELSE {})

\* an RwLock that hands out a lock whoever holds it
CanAcquireUnguarded(t, locker) == TRUE

\* RwLock::read / RwLock::write return: a write lock when nobody holds the
\* lock, a read lock when nobody holds it for writing
CanAcquire(t, locker) ==
    \A u \in Threads : \A g \in HeldGuards(mlock[u]) :
        g.id = locker.id => (~locker.write /\ ~g.write)

\* the thread asks for a lock it holds itself, and one of the two is a write
\* lock: RwLock documents that the call may deadlock or panic
Relock(t, locker) ==
    \E g \in HeldGuards(mlock[t]) : g.id = locker.id /\ (locker.write \/ g.write)

\* the handles in the order the locks were acquired
MultiLockHandlesAcquired(guards, sorted) ==
    [k \in 1..Len(sorted) |-> Unwrap(guards[sorted[k]])]

\* WorldMultiLocker::handles: each locker's handle, in the declared order
MultiLockHandles(guards, sorted) ==
    [i \in 1..Len(guards) |-> Unwrap(guards[i])]

\* guards that outlive the failed call
DroppedGuardsLeaked(guards) == guards

\* the lockers of a call that returns early: the tuple is dropped and every
\* guard with it
DroppedGuards(guards) == [i \in 1..Len(guards) |-> None]

\* World::new, insert_resource, register_component; no thread has called
InitLocks ==
    /\ InitAllocator
    /\ NoQuery
    /\ NoStorage
    /\ NoEcs
    /\ NoClone /\ NoSet /\ NoArray
    /\ world \in Worlds
    /\ mlock = [t \in Threads |-> Idle]
    /\ content = [id \in LockIds |-> [n |-> 0, by |-> "none"]]

\* thread t calls world.multi_lock::<m>(): M::default().lock(self) up to the
\* sort of the lockers
MultiLock(t, m) ==
    /\ mlock[t].pc = "idle"
    /\ mlock' = [mlock EXCEPT ![t] =
           [pc |-> "locking", tuple |-> m, sorted |-> SortLockers(m), at |-> 0,
            guards |-> [i \in 1..Len(m) |-> None], acquired |-> <<>>,
            handles |-> None]]
    /\ UNCHANGED <<world, content>>
    /\ UNCHANGED <<allocVars, scanVars, storeVars, ecsVars, cloneVars, snapVars, setVars, arrayVars>>

\* one round of the loop of WorldMultiLocker::lock: locker(world)?
LockerStep(t) ==
    LET c == mlock[t]
        slot == c.sorted[c.at + 1]
        locker == c.tuple[slot]
    IN  /\ c.pc = "locking"
        /\ c.at < Len(c.sorted)
        /\ IF locker.id \notin world
           THEN \* read_resource / read_component return Err, lock returns it
                mlock' = [mlock EXCEPT ![t] =
                    [c EXCEPT !.pc = "failed",
                              !.guards = DroppedGuards(c.guards),
                              !.handles = Some(Err(IF locker.id.kind = "Resource"
                                                   THEN "No such resource"
                                                   ELSE "UnregisteredComponent"))]]
           ELSE /\ CanAcquire(t, locker)
                /\ mlock' = [mlock EXCEPT ![t] =
                       [c EXCEPT !.guards[slot] = Some(Guard(locker)),
                                 !.at = c.at + 1,
                                 !.acquired = Append(c.acquired, locker.id)]]
        /\ UNCHANGED <<world, content>>
        /\ UNCHANGED <<allocVars, scanVars, storeVars, ecsVars, cloneVars, snapVars, setVars, arrayVars>>

\* the RwLock panics because the thread holds it already; the unwinding
\* drops the tuple
RelockPanic(t) ==
    LET c == mlock[t]
        locker == c.tuple[c.sorted[c.at + 1]]
    IN  /\ c.pc = "locking"
        /\ c.at < Len(c.sorted)
        /\ locker.id \in world
        /\ Relock(t, locker)
        /\ mlock' = [mlock EXCEPT ![t] =
               [c EXCEPT !.pc = "panicked", !.guards = DroppedGuards(c.guards)]]
        /\ UNCHANGED <<world, content>>
        /\ UNCHANGED <<allocVars, scanVars, storeVars, ecsVars, cloneVars, snapVars, setVars, arrayVars>>

\* Ok(self.handles())
ReturnHandles(t) ==
    LET c == mlock[t]
    IN  /\ c.pc = "locking"
        /\ c.at = Len(c.sorted)
        /\ mlock' = [mlock EXCEPT ![t] =
               [c EXCEPT !.pc = "holding",
                         !.guards = [i \in 1..Len(c.guards) |-> None],
                         !.handles = Some(Ok(MultiLockHandles(c.guards, c.sorted)))]]
        /\ UNCHANGED <<world, content>>
        /\ UNCHANGED <<allocVars, scanVars, storeVars, ecsVars, cloneVars, snapVars, setVars, arrayVars>>

\* the holder writes through its i-th handle, a write guard
WriteThrough(t, i) ==
    LET c == mlock[t]
    IN  /\ c.pc = "holding"
        /\ i \in DOMAIN Unwrap(c.handles).val
        /\ Unwrap(c.handles).val[i].write
        /\ content[Unwrap(c.handles).val[i].id].n < MaxWrites
        /\ content' = [content EXCEPT ![Unwrap(c.handles).val[i].id] =
               [n |-> @.n + 1, by |-> t]]
        /\ UNCHANGED <<world, mlock>>
        /\ UNCHANGED <<allocVars, scanVars, storeVars, ecsVars, cloneVars, snapVars, setVars, arrayVars>>

\* the holder drops the handles
DropHandles(t) ==
    /\ mlock[t].pc = "holding"
    /\ mlock' = [mlock EXCEPT ![t] = [Idle EXCEPT !.pc = "done"]]
    /\ UNCHANGED <<world, content>>
    /\ UNCHANGED <<allocVars, scanVars, storeVars, ecsVars, cloneVars, snapVars, setVars, arrayVars>>

NextLocks ==
    \/ \E t \in Threads : \E m \in LockerTuples : MultiLock(t, m)
    \/ \E t \in Threads : LockerStep(t)
    \/ \E t \in Threads : RelockPanic(t)
    \/ \E t \in Threads : ReturnHandles(t)
    \/ \E t \in Threads : \E i \in 1..Len(mlock[t].tuple) : WriteThrough(t, i)
    \/ \E t \in Threads : DropHandles(t)

SpecLocks == InitLocks /\ [][NextLocks]_vars

-----------------------------------------------------------------------------
(* ecs.rs: an Ecs, its allocator in entries and free, under add_entity,      *)
(* insert_components, remove_entity and the calls of the component handles   *)

\* the registered component types: Position is stored dense, Player sparse
ComponentTypes == {"Position", "Player"}

\* the components of a type that callers put in: two positions that differ,
\* and the player marker, a unit struct
ComponentValues(type) == IF type = "Position" THEN {1, 2} ELSE {1}

\* ComponentEntry::<T::Storage>::new(): S::default()
NewStorage(type) ==
    IF type = "Position"
    THEN DenseComponentStorage(<<>>)
    ELSE SparseComponentStorage(<<>>)

\* the AnyMaps of components: at most one component of each type
Bundles ==
    LET values == UNION {ComponentValues(T) : T \in ComponentTypes}
    IN  UNION {{input \in [S -> values] : \A T \in S : input[T] \in ComponentValues(T)}
                  : S \in SUBSET ComponentTypes}

\* the entities a caller can pass: those add_entity has returned, which the
\* caller keeps also after they are removed
Known(entity) == issued[entity] >= 1

\* insert_entity_from for every storage of cs on the row entity_index: the
\* storages after the call and the components overwritten
InsertRows(cs, entity_index, input) ==
    LET ins(T) == StorageInsert(cs[T], entity_index, input[T])
    IN  [components |-> [T \in DOMAIN cs |->
                            IF T \in DOMAIN input THEN ins(T).st ELSE cs[T]],
         overwritten |-> [T \in {U \in DOMAIN cs \cap DOMAIN input : IsSome(ins(U).r)} |->
                            Unwrap(ins(T).r)]]

\* an insert_components that inserts without asking whether the entity is live
insert_components_unchecked(es, cs, entity, input) ==
    LET done == InsertRows(cs, entity.index, input)
    IN  IF \E T \in DOMAIN input : T \notin DOMAIN cs
        THEN [components |-> done.components, ret |-> Err("UnregisteredComponent")]
        ELSE [components |-> done.components, ret |-> Ok(Some(done.overwritten))]

\* an insert_components that looks for unregistered types before it inserts
insert_components_prechecked(es, cs, entity, input) ==
    IF ~is_live_in(es, entity)
    THEN [components |-> cs, ret |-> Ok(None)]
    ELSE IF \E T \in DOMAIN input : T \notin DOMAIN cs
         THEN [components |-> cs, ret |-> Err("UnregisteredComponent")]
         ELSE LET done == InsertRows(cs, entity.index, input)
              IN  [components |-> done.components, ret |-> Ok(Some(done.overwritten))]

\* insert_components(&mut self, entity, components) on an Ecs with allocator
\* entries es and storages cs: Ok(None) for a dead entity
insert_components(es, cs, entity, input) ==
    IF ~is_live_in(es, entity)
    THEN [components |-> cs, ret |-> Ok(None)]
    ELSE LET done == InsertRows(cs, entity.index, input)
         IN  IF \E T \in DOMAIN input : T \notin DOMAIN cs
             THEN [components |-> done.components, ret |-> Err("UnregisteredComponent")]
             ELSE [components |-> done.components, ret |-> Ok(Some(done.overwritten))]

\* a remove_entity_into that hands the components out and leaves the rows
RemoveRowsLeavesRows(cs, entity_index) ==
    [components |-> cs,
     output |-> [T \in {U \in DOMAIN cs : IsSome(StorageGet(cs[U], entity_index))} |->
                    Unwrap(StorageGet(cs[T], entity_index))]]

\* remove_entity_into for every storage of cs on the row entity_index: the
\* storages after the call and the components taken out
RemoveRows(cs, entity_index) ==
    LET rem(T) == StorageRemove(cs[T], entity_index)
    IN  [components |-> [T \in DOMAIN cs |-> rem(T).st],
         output |-> [T \in {U \in DOMAIN cs : IsSome(rem(U).r)} |-> Unwrap(rem(T).r)]]

\* Ecs::new() and register_component for every component type
InitEcs ==
    /\ InitAllocator
    /\ NoClone /\ NoSet /\ NoArray
    /\ NoQuery
    /\ NoStorage
    /\ NoLocks
    /\ components = [T \in ComponentTypes |-> NewStorage(T)]
    /\ eop = [name |-> "new"]

\* add_entity(Some(input)) on an Ecs that is kept to at most max entity
\* slots.  add_entity(None) is the call with the empty input: it returns
\* Ok(entity) without insert_components, which for an empty AnyMap inserts
\* nothing and returns Ok.
AddEntityUpTo(max, input) ==
    /\ ~panicked
    /\ free = <<>> => Len(entries) < max
    /\ LET a == allocate(entries, free)
       IN  /\ free' = a.free
           /\ panicked' = a.panic
           /\ IF IsSome(a.ret)
              THEN LET entity == Entity(Unwrap(a.ret))
                       ic == insert_components(a.entries, components, entity, input)
                   IN  /\ entries' = a.entries
                       /\ components' = ic.components
                       /\ issued' = [issued EXCEPT ![entity] = @ + 1]
                       /\ eop' = [name |-> "add_entity", arg |-> input,
                                  ret |-> IF ic.ret.tag = "Ok" THEN Ok(entity) ELSE ic.ret]
              ELSE /\ entries' = a.entries
                   /\ eop' = [name |-> "add_entity", arg |-> input, ret |-> Err("panic")]
                   /\ UNCHANGED <<components, issued>>
    /\ UNCHANGED <<op, watched, freed, peak>>
    /\ UNCHANGED <<scanVars, storeVars, lockVars, cloneVars, snapVars, setVars, arrayVars>>

\* add_entity(Some(input))
AddEntity(input) == AddEntityUpTo(MaxEntities, input)

\* insert_components(entity, input)
InsertComponents(entity, input) ==
    /\ ~panicked
    /\ Known(entity)
    /\ LET ic == insert_components(entries, components, entity, input)
       IN  /\ components' = ic.components
           /\ eop' = [name |-> "insert_components", arg |-> <<entity, input>>,
                      ret |-> ic.ret]
    /\ UNCHANGED allocVars
    /\ UNCHANGED <<scanVars, storeVars, lockVars, cloneVars, snapVars, setVars, arrayVars>>

\* remove_entity(entity)
RemoveEntity(entity) ==
    /\ ~panicked
    /\ Known(entity)
    /\ deallocate_returns(entries, entity) => entries[entity.index + 1].generation < MaxGen
    /\ LET d == deallocate(entries, free, entity)
           rem == RemoveRows(components, entity.index)
       IN  /\ entries' = d.entries
           /\ free' = d.free
           /\ IF d.ret
              THEN /\ components' = rem.components
                   /\ eop' = [name |-> "remove_entity", arg |-> entity,
                              ret |-> Some(rem.output)]
              ELSE /\ UNCHANGED components
                   /\ eop' = [name |-> "remove_entity", arg |-> entity, ret |-> None]
    /\ UNCHANGED <<panicked, op, issued, watched, freed, peak>>
    /\ UNCHANGED <<scanVars, storeVars, lockVars, cloneVars, snapVars, setVars, arrayVars>>

\* read_component::<type>().get(entity), write_component::<type>().get_mut(entity)
HandleGet(name, type, entity) ==
    /\ ~panicked
    /\ Known(entity)
    /\ eop' = [name |-> name, arg |-> <<type, entity>>,
               ret |-> StorageGet(components[type], entity.index)]
    /\ UNCHANGED components
    /\ UNCHANGED allocVars
    /\ UNCHANGED <<scanVars, storeVars, lockVars, cloneVars, snapVars, setVars, arrayVars>>

\* an insert that never asks the allocator whether the entity is live
HandleInsertUnchecked(type, entity, component) ==
    /\ ~panicked
    /\ Known(entity)
    /\ LET ins == StorageInsert(components[type], entity.index, component)
       IN  /\ components' = [components EXCEPT ![type] = ins.st]
           /\ eop' = [name |-> "insert", arg |-> <<type, entity, component>>,
                      ret |-> IF IsSome(ins.r)
                              THEN <<"Updated", Unwrap(ins.r)>>
                              ELSE <<"Inserted">>]
    /\ UNCHANGED allocVars
    /\ UNCHANGED <<scanVars, storeVars, lockVars, cloneVars, snapVars, setVars, arrayVars>>

\* write_component::<type>().insert(entity, component)
HandleInsert(type, entity, component) ==
    /\ ~panicked
    /\ Known(entity)
    /\ IF ~is_live(entity)
       THEN /\ eop' = [name |-> "insert", arg |-> <<type, entity, component>>,
                       ret |-> <<"EntityIsDead", component>>]
            /\ UNCHANGED components
       ELSE LET ins == StorageInsert(components[type], entity.index, component)
            IN  /\ components' = [components EXCEPT ![type] = ins.st]
                /\ eop' = [name |-> "insert", arg |-> <<type, entity, component>>,
                           ret |-> IF IsSome(ins.r)
                                   THEN <<"Updated", Unwrap(ins.r)>>
                                   ELSE <<"Inserted">>]
    /\ UNCHANGED allocVars
    /\ UNCHANGED <<scanVars, storeVars, lockVars, cloneVars, snapVars, setVars, arrayVars>>

\* write_component::<type>().remove(entity)
HandleRemove(type, entity) ==
    /\ ~panicked
    /\ Known(entity)
    /\ IF is_live(entity)
       THEN LET rem == StorageRemove(components[type], entity.index)
            IN  /\ components' = [components EXCEPT ![type] = rem.st]
                /\ eop' = [name |-> "remove", arg |-> <<type, entity>>, ret |-> rem.r]
       ELSE /\ eop' = [name |-> "remove", arg |-> <<type, entity>>, ret |-> None]
            /\ UNCHANGED components
    /\ UNCHANGED allocVars
    /\ UNCHANGED <<scanVars, storeVars, lockVars, cloneVars, snapVars, setVars, arrayVars>>

NextEcs ==
    \/ \E input \in Bundles : AddEntity(input)
    \/ \E entity \in Handles : \E input \in Bundles : InsertComponents(entity, input)
    \/ \E entity \in Handles : RemoveEntity(entity)
    \/ \E name \in {"get", "get_mut"} : \E type \in ComponentTypes :
          \E entity \in Handles : HandleGet(name, type, entity)
    \/ \E type \in ComponentTypes : \E entity \in Handles :
          \E component \in ComponentValues(type) : HandleInsert(type, entity, component)
    \/ \E type \in ComponentTypes : \E entity \in Handles : HandleRemove(type, entity)

SpecEcs == InitEcs /\ [][NextEcs]_vars

-----------------------------------------------------------------------------
(* An Ecs whose component types are registered one by one: SpecRegister *)

\* a register_component that always installs a fresh storage
RegisterReplaces(cs, type) ==
    [T \in DOMAIN cs \cup {type} |-> IF T = type THEN NewStorage(T) ELSE cs[T]]

\* register_component::<type>() on the storages cs: a fresh storage under
\* the type if there is none
register_component(cs, type) ==
    IF type \notin DOMAIN cs
    THEN [T \in DOMAIN cs \cup {type} |-> IF T = type THEN NewStorage(T) ELSE cs[T]]
    ELSE cs

\* Ecs::new(): no entity and no registered component type
InitRegister ==
    /\ InitAllocator
    /\ NoClone /\ NoSet /\ NoArray
    /\ NoQuery
    /\ NoStorage
    /\ NoLocks
    /\ components = [T \in {} |-> NewStorage(T)]
    /\ eop = [name |-> "new"]

\* register_component::<type>()
RegisterComponent(type) ==
    /\ ~panicked
    /\ components' = register_component(components, type)
    /\ eop' = [name |-> "register_component", arg |-> type]
    /\ UNCHANGED allocVars
    /\ UNCHANGED <<scanVars, storeVars, lockVars, cloneVars, snapVars, setVars, arrayVars>>

NextRegister ==
    \/ \E type \in ComponentTypes : RegisterComponent(type)
    \/ \E input \in Bundles : AddEntity(input)
    \/ \E entity \in Handles : \E input \in Bundles : InsertComponents(entity, input)
    \/ \E entity \in Handles : RemoveEntity(entity)

SpecRegister == InitRegister /\ [][NextRegister]_vars

-----------------------------------------------------------------------------
(* An Ecs and its clone: SpecClone.  Ecs.components owns each storage
   through a Box, so the model keeps the storages in a heap and the Ecs
   holds their addresses. *)

\* the order in which the storages are boxed
Rank(type) == IF type = "Position" THEN 1 ELSE 2

\* the storages an Ecs owns, by type
Boxed(h, ecs) == [T \in DOMAIN ecs.components |-> h[ecs.components[T]]]

\* the heap after the storages of the Ecs have become cs
Unboxed(h, ecs, cs) ==
    [a \in DOMAIN h |->
        IF \E T \in DOMAIN ecs.components : ecs.components[T] = a
        THEN cs[CHOOSE T \in DOMAIN ecs.components : ecs.components[T] = a]
        ELSE h[a]]

\* a clone whose entries point to the storages of the original
CloneShares(h, ecs) == [heap |-> h, ecs |-> ecs]

\* Clone for Ecs: clone_lock() captures every storage, each closure boxes a
\* copy of its storage, and the allocator is cloned
clone(h, ecs) ==
    LET types == DOMAIN ecs.components
        box(T) == Len(h) + Cardinality({U \in types : Rank(U) <= Rank(T)})
    IN  [heap |-> [a \in 1..(Len(h) + Cardinality(types)) |->
                      IF a <= Len(h) THEN h[a]
                      ELSE h[ecs.components[CHOOSE T \in types : box(T) = a]]],
         ecs |-> [entries |-> ecs.entries, free |-> ecs.free,
                  components |-> [T \in types |-> box(T)]]]

\* the entity slots that the original and its clone hold together; the
\* clone that is still to be made counts with the slots it will copy
TotalSlots(es) ==
    Len(es["original"].entries)
        + Len(es[IF "clone" \in DOMAIN es THEN "clone" ELSE "original"].entries)

RECURSIVE Removals(_)
\* the entities an allocator with entries es has deallocated: every
\* deallocation adds one to a generation
Removals(es) ==
    IF es = <<>> THEN 0 ELSE es[1].generation + Removals(Tail(es))

\* the handles an allocator with entries es has given out
Issued(es, entity) ==
    /\ entity.index < Len(es)
    /\ \/ entity.generation < es[entity.index + 1].generation
       \/ is_live_in(es, entity)

\* the entities a caller of either Ecs can pass: what one of them returned
Passable(entity) == \E w \in DOMAIN ecss : Issued(ecss[w].entries, entity)

\* Ecs::new() and register_component for every component type
InitClone ==
    /\ InitAllocator
    /\ NoQuery
    /\ NoStorage
    /\ NoLocks
    /\ NoEcs
    /\ heap = [a \in 1..Cardinality(ComponentTypes) |->
                  NewStorage(CHOOSE T \in ComponentTypes : Rank(T) = a)]
    /\ ecss = [w \in {"original"} |->
                  [entries |-> <<>>, free |-> <<>>,
                   components |-> [T \in ComponentTypes |-> Rank(T)]]]
    /\ aborted = FALSE
    /\ cl = <<>>
    /\ wr = <<>>
    /\ NoSet /\ NoArray

\* the Ecs w has become [entries, free] with the storages cs
Becomes(w, es, fr, cs) ==
    /\ ecss' = [ecss EXCEPT ![w].entries = es, ![w].free = fr]
    /\ heap' = Unboxed(heap, ecss[w], cs)
    /\ UNCHANGED aborted

\* let c = ecs.clone()
CloneEcs ==
    /\ ~aborted
    /\ DOMAIN ecss = {"original"}
    /\ LET c == clone(heap, ecss["original"])
       IN  /\ heap' = c.heap
           /\ ecss' = [w \in {"original", "clone"} |->
                          IF w = "clone" THEN c.ecs ELSE ecss[w]]
    /\ UNCHANGED aborted
    /\ UNCHANGED <<allocVars, scanVars, storeVars, lockVars, ecsVars, snapVars, setVars, arrayVars>>

\* add_entity(Some(input)) on the Ecs w
CloneAddEntity(w, input) ==
    /\ ~aborted
    /\ ecss[w].free = <<>> =>
          TotalSlots(ecss) + (IF "clone" \in DOMAIN ecss THEN 1 ELSE 2) <= MaxSlots
    /\ LET a == allocate(ecss[w].entries, ecss[w].free)
       IN  IF IsSome(a.ret)
           THEN LET ic == insert_components(a.entries, Boxed(heap, ecss[w]),
                                            Entity(Unwrap(a.ret)), input)
                IN  Becomes(w, a.entries, a.free, ic.components)
           ELSE aborted' = TRUE /\ UNCHANGED <<ecss, heap>>
    /\ UNCHANGED <<allocVars, scanVars, storeVars, lockVars, ecsVars, snapVars, setVars, arrayVars>>

\* insert_components(entity, input) on the Ecs w
CloneInsertComponents(w, entity, input) ==
    /\ ~aborted
    /\ Passable(entity)
    /\ LET ic == insert_components(ecss[w].entries, Boxed(heap, ecss[w]), entity, input)
       IN  Becomes(w, ecss[w].entries, ecss[w].free, ic.components)
    /\ UNCHANGED <<allocVars, scanVars, storeVars, lockVars, ecsVars, snapVars, setVars, arrayVars>>

\* remove_entity(entity) on the Ecs w
CloneRemoveEntity(w, entity) ==
    /\ ~aborted
    /\ Passable(entity)
    /\ deallocate_returns(ecss[w].entries, entity)
          => /\ ecss[w].entries[entity.index + 1].generation < MaxGen
             /\ Removals(ecss[w].entries) < MaxRemovals
    /\ LET d == deallocate(ecss[w].entries, ecss[w].free, entity)
           rem == RemoveRows(Boxed(heap, ecss[w]), entity.index)
       IN  IF d.ret
           THEN Becomes(w, d.entries, d.free, rem.components)
           ELSE UNCHANGED <<ecss, heap, aborted>>
    /\ UNCHANGED <<allocVars, scanVars, storeVars, lockVars, ecsVars, snapVars, setVars, arrayVars>>

\* write_component::<type>().insert(entity, component) on the Ecs w
CloneHandleInsert(w, type, entity, component) ==
    /\ ~aborted
    /\ Passable(entity)
    /\ IF ~is_live_in(ecss[w].entries, entity)
       THEN UNCHANGED <<ecss, heap, aborted>>
       ELSE LET cs == Boxed(heap, ecss[w])
                ins == StorageInsert(cs[type], entity.index, component)
            IN  Becomes(w, ecss[w].entries, ecss[w].free, [cs EXCEPT ![type] = ins.st])
    /\ UNCHANGED <<allocVars, scanVars, storeVars, lockVars, ecsVars, snapVars, setVars, arrayVars>>

\* write_component::<type>().remove(entity) on the Ecs w
CloneHandleRemove(w, type, entity) ==
    /\ ~aborted
    /\ Passable(entity)
    /\ IF is_live_in(ecss[w].entries, entity)
       THEN LET cs == Boxed(heap, ecss[w])
                rem == StorageRemove(cs[type], entity.index)
            IN  Becomes(w, ecss[w].entries, ecss[w].free, [cs EXCEPT ![type] = rem.st])
       ELSE UNCHANGED <<ecss, heap, aborted>>
    /\ UNCHANGED <<allocVars, scanVars, storeVars, lockVars, ecsVars, snapVars, setVars, arrayVars>>

NextClone ==
    \/ CloneEcs
    \/ \E w \in DOMAIN ecss : \E input \in Bundles : CloneAddEntity(w, input)
    \/ \E w \in DOMAIN ecss : \E entity \in Handles : \E input \in Bundles :
          CloneInsertComponents(w, entity, input)
    \/ \E w \in DOMAIN ecss : \E entity \in Handles : CloneRemoveEntity(w, entity)
    \/ \E w \in DOMAIN ecss : \E type \in ComponentTypes : \E entity \in Handles :
          \E component \in ComponentValues(type) :
             CloneHandleInsert(w, type, entity, component)
    \/ \E w \in DOMAIN ecss : \E type \in ComponentTypes : \E entity \in Handles :
          CloneHandleRemove(w, type, entity)

SpecClone == InitClone /\ [][NextClone]_vars

-----------------------------------------------------------------------------
(* An Ecs under every call that changes it: SpecRows; an Ecs of several    *)
(* entities under add_entity, insert_components and remove_entity:         *)
(* SpecInsert                                                              *)

\* A component handle exists for a registered type only: write_component
\* returns Err(UnregisteredComponent) for any other.
NextRows ==
    \/ \E type \in ComponentTypes : RegisterComponent(type)
    \/ \E input \in Bundles : AddEntity(input)
    \/ \E entity \in Handles : \E input \in Bundles : InsertComponents(entity, input)
    \/ \E entity \in Handles : RemoveEntity(entity)
    \/ \E type \in DOMAIN components : \E entity \in Handles :
          \E component \in ComponentValues(type) : HandleInsert(type, entity, component)
    \/ \E type \in DOMAIN components : \E entity \in Handles : HandleRemove(type, entity)

SpecRows == InitRegister /\ [][NextRows]_vars

\* remove_entity(entity), at most MaxRemovals of them removing an entity
RemoveEntityUpTo(entity) ==
    /\ deallocate_returns(entries, entity) => Removals(entries) < MaxRemovals
    /\ RemoveEntity(entity)

NextInsert ==
    \/ \E input \in Bundles : AddEntityUpTo(MaxSlots, input)
    \/ \E entity \in Handles : \E input \in Bundles : InsertComponents(entity, input)
    \/ \E entity \in Handles : RemoveEntityUpTo(entity)

SpecInsert == InitEcs /\ [][NextInsert]_vars

-----------------------------------------------------------------------------
(* An EntitySet, scanned and pruned against the allocator: SpecEntitySet *)

\* the entities a set can hold: Entity is Copy, so any index, also one past
\* the allocator's slots, with any generation
SetHandles == {GenerationalIndex(i, g) : i \in 0..MaxEntities, g \in 0..MaxGen}

\* EntitySet = BTreeSet<Entity>
EntitySets == {S \in SUBSET SetHandles : Cardinality(S) <= MaxSetSize}

\* EntityAllocator::prune_set: the set without its members that are not live
prune_set(es, set) == set \ {e \in set : ~is_live_in(es, e)}

\* an Ecs with at most MaxEntities entity slots, and an EntitySet of the
\* caller
InitEntitySet ==
    /\ entries \in {es \in AllocatorEntries : Len(es) <= MaxEntities}
    /\ free = Ascending({i \in 0..(Len(entries) - 1) : ~entries[i + 1].is_live})
    /\ panicked = FALSE
    /\ op = [name |-> "new"]
    /\ issued = [gi \in Handles |-> 0]
    /\ watched = None
    /\ freed = [i \in 0..MaxSlots |-> 0]
    /\ peak = 0
    /\ NoQuery
    /\ NoStorage
    /\ NoLocks
    /\ components = <<>>
    /\ eop = [name |-> "new"]
    /\ NoClone /\ NoArray
    /\ eset \in EntitySets

\* prune_entity_set(&mut set), while no scanner borrows the set
PruneEntitySet ==
    /\ query.shape = "None"
    /\ eset' = prune_set(entries, eset)
    /\ eop' = [name |-> "prune_entity_set", arg |-> eset]
    /\ UNCHANGED components
    /\ UNCHANGED <<allocVars, scanVars, storeVars, lockVars, cloneVars, snapVars, arrayVars>>

\* scan_entity_set(&set)
ScanEntitySetCall ==
    /\ query.shape = "None"
    /\ query' = [shape |-> "EntitySet", legs |-> <<>>]
    /\ qscan' = ScanSet(entries, eset)
    /\ UNCHANGED <<stores, mirror, calls, result, mresult, emitted, drained, single>>
    /\ UNCHANGED <<allocVars, storeVars, lockVars, ecsVars, cloneVars, snapVars,
                   setVars, arrayVars>>

NextEntitySet ==
    \/ PruneEntitySet
    \/ ScanEntitySetCall
    \/ \E until \in Untils : ScanCall(until)

SpecEntitySet == InitEntitySet /\ [][NextEntitySet]_vars

-----------------------------------------------------------------------------
(* Every scanner other than opt, scanned past its end: SpecExhaust *)

\* the storage scans alone and mapped, scan_entities(), and join, not and
\* limit over storage scans of both storages and with scan_entities()
ExhaustQueries ==
    {[shape |-> sh, legs |-> <<k>>] : sh \in {"Scan", "Map"}, k \in Kinds}
        \cup {[shape |-> "Entities", legs |-> <<>>],
              [shape |-> "Join", legs |-> <<"Dense", "SparseMut">>],
              [shape |-> "Join", legs |-> <<"Sparse", "DenseMut">>],
              [shape |-> "Not", legs |-> <<"DenseMut", "Sparse">>],
              [shape |-> "Not", legs |-> <<"SparseMut", "Dense">>],
              [shape |-> "Limit", legs |-> <<"Dense", "Sparse">>],
              [shape |-> "EntityJoin", legs |-> <<"Sparse">>]}

\* one of these queries is built, or an EntitySet is there to be scanned
InitExhaust ==
    \/ \E q \in ExhaustQueries : InitQuery(q)
    \/ InitEntitySet

NextExhaust ==
    \/ ScanEntitySetCall
    \/ \E until \in Untils : ScanCall(until)

SpecExhaust == InitExhaust /\ [][NextExhaust]_vars

-----------------------------------------------------------------------------
(* generational_index.rs: GenerationalIndexArray<T>(Vec<Option<ArrayEntry<T>>>),
   and EntityIndex<T>, the same array keyed by Entity: SpecArray *)

ArrayEntry(value, generation) == [value |-> value, generation |-> generation]

\* the keys the callers pass: any index up to MaxEntities with any generation
ArrayKeys == {GenerationalIndex(i, g) : i \in 0..MaxEntities, g \in 0..MaxGen}

\* the values the callers store
ArrayValues == {1, 2}

\* insert(&mut self, gen_index, value): pads with None, takes the entry at
\* the index whatever its generation, and stores the new one
array_insert(arr, gen_index, value) ==
    LET padded == PadTo(arr, gen_index.index)
        entry == padded[gen_index.index + 1]
    IN  [array |-> [padded EXCEPT ![gen_index.index + 1] =
                       Some(ArrayEntry(value, gen_index.generation))],
         ret |-> IF IsSome(entry)
                 THEN Some(<<GenerationalIndex(gen_index.index, Unwrap(entry).generation),
                             Unwrap(entry).value>>)
                 ELSE None]

\* remove(&mut self, gen_index): takes the entry and gives its value out if
\* e.generation == e.generation, the entry's generation compared with
\* itself; otherwise puts it back
array_remove(arr, gen_index) ==
    IF gen_index.index < Len(arr) /\ IsSome(arr[gen_index.index + 1])
    THEN LET e == Unwrap(arr[gen_index.index + 1])
         IN  IF e.generation = e.generation
             THEN [array |-> [arr EXCEPT ![gen_index.index + 1] = None],
                   ret |-> Some(e.value)]
             ELSE [array |-> arr, ret |-> None]
    ELSE [array |-> arr, ret |-> None]

\* a get that takes whatever entry the index holds
array_get_by_index(arr, gen_index) ==
    IF gen_index.index < Len(arr) /\ IsSome(arr[gen_index.index + 1])
    THEN Some(Unwrap(arr[gen_index.index + 1]).value)
    ELSE None

\* get(&self, gen_index), get_mut(&mut self, gen_index)
array_get(arr, gen_index) ==
    IF gen_index.index < Len(arr)
    THEN LET entry == arr[gen_index.index + 1]
         IN  IF IsSome(entry) /\ Unwrap(entry).generation = gen_index.generation
             THEN Some(Unwrap(entry).value)
             ELSE None
    ELSE None

\* contains_key(&self, gen_index)
array_contains_key(arr, gen_index) == IsSome(array_get(arr, gen_index))

\* GenerationalIndexArray::new()
InitArray ==
    /\ InitAllocator
    /\ NoQuery
    /\ NoStorage
    /\ NoLocks
    /\ NoEcs
    /\ NoClone /\ NoSet
    /\ array = <<>>
    /\ aop = [name |-> "new"]

\* array.insert(key, value)
ArrayInsert(key, value) ==
    /\ LET ins == array_insert(array, key, value)
       IN  /\ array' = ins.array
           /\ aop' = [name |-> "insert", key |-> key, value |-> value, ret |-> ins.ret]
    /\ UNCHANGED <<allocVars, scanVars, storeVars, lockVars, ecsVars, cloneVars,
                   snapVars, setVars>>

\* array.remove(key)
ArrayRemove(key) ==
    /\ LET rem == array_remove(array, key)
       IN  /\ array' = rem.array
           /\ aop' = [name |-> "remove", key |-> key, ret |-> rem.ret]
    /\ UNCHANGED <<allocVars, scanVars, storeVars, lockVars, ecsVars, cloneVars,
                   snapVars, setVars>>

\* array.get(key), array.get_mut(key)
ArrayGet(name, key) ==
    /\ aop' = [name |-> name, key |-> key, ret |-> array_get(array, key)]
    /\ UNCHANGED array
    /\ UNCHANGED <<allocVars, scanVars, storeVars, lockVars, ecsVars, cloneVars,
                   snapVars, setVars>>

\* array.contains_key(key)
ArrayContainsKey(key) ==
    /\ aop' = [name |-> "contains_key", key |-> key,
               ret |-> array_contains_key(array, key)]
    /\ UNCHANGED array
    /\ UNCHANGED <<allocVars, scanVars, storeVars, lockVars, ecsVars, cloneVars,
                   snapVars, setVars>>

NextArray ==
    \/ \E key \in ArrayKeys : \E value \in ArrayValues : ArrayInsert(key, value)
    \/ \E key \in ArrayKeys : ArrayRemove(key)
    \/ \E name \in {"get", "get_mut"} : \E key \in ArrayKeys : ArrayGet(name, key)
    \/ \E key \in ArrayKeys : ArrayContainsKey(key)

SpecArray == InitArray /\ [][NextArray]_vars

-----------------------------------------------------------------------------
(* Ecs::clone beside threads that write through write_component handles:
   SpecSnapshot.  All of them share the Ecs by &Ecs, so no entity is added
   or removed meanwhile. *)

\* the orders in which HashMap::iter() can yield the registered types; the
\* second loop of clone follows the Vec the first one filled
IterationOrders ==
    {o \in [1..Cardinality(ComponentTypes) -> ComponentTypes] :
        \A i, j \in DOMAIN o : o[i] = o[j] => i = j}

\* a read() that returns beside a writer
CanReadBesideWriter(type) == TRUE

\* RwLock::read returns when no thread holds the lock for writing
CanRead(type) == \A t \in Threads : type \notin wr[t]

\* RwLock::write returns when no thread holds the lock
CanWrite(type) == type \notin cl.guards /\ \A t \in Threads : type \notin wr[t]

\* an Ecs with MaxEntities entities and every component type registered,
\* shared by the threads
InitSnapshot ==
    /\ entries = [i \in 1..MaxEntities |-> AllocatorEntry(TRUE, 0)]
    /\ free = <<>>
    /\ panicked = FALSE
    /\ op = [name |-> "new"]
    /\ issued = [gi \in Handles |->
                    IF gi.index < MaxEntities /\ gi.generation = 0 THEN 1 ELSE 0]
    /\ watched = None
    /\ freed = [i \in 0..MaxSlots |-> 0]
    /\ peak = 0
    /\ NoQuery
    /\ NoStorage
    /\ NoLocks
    /\ components = [T \in ComponentTypes |-> NewStorage(T)]
    /\ eop = [name |-> "new"]
    /\ ecss = <<>>
    /\ heap = <<>>
    /\ aborted = FALSE
    /\ cl = [pc |-> "idle", order |-> <<>>, at |-> 0, guards |-> {},
             copies |-> <<>>, instant |-> <<>>]
    /\ wr = [t \in Threads |-> {}]
    /\ NoSet /\ NoArray

\* ecs.clone() is called: the first loop starts over components.iter()
CloneStart(order) ==
    /\ cl.pc = "idle"
    /\ cl' = [cl EXCEPT !.pc = "locking", !.order = order, !.at = 1]
    /\ UNCHANGED wr
    /\ UNCHANGED <<allocVars, scanVars, storeVars, lockVars, ecsVars, cloneVars, setVars, arrayVars>>

\* clone_locks.push((type_id, component.clone_lock())): the read lock of the
\* next storage is acquired and kept in the closure.  `instant` notes the
\* storages as they are when the last lock is acquired.
CloneLock ==
    /\ cl.pc = "locking"
    /\ CanRead(cl.order[cl.at])
    /\ cl' = IF cl.at = Len(cl.order)
             THEN [cl EXCEPT !.pc = "copying", !.at = 1,
                             !.guards = @ \cup {cl.order[cl.at]},
                             !.instant = components]
             ELSE [cl EXCEPT !.at = @ + 1, !.guards = @ \cup {cl.order[cl.at]}]
    /\ UNCHANGED wr
    /\ UNCHANGED <<allocVars, scanVars, storeVars, lockVars, ecsVars, cloneVars, setVars, arrayVars>>

\* components.insert(*type_id, clone_lock()): the closure copies its storage;
\* the closure, and the guard in it, is dropped at the end of the iteration
CloneCopy ==
    /\ cl.pc = "copying"
    /\ LET type == cl.order[cl.at]
       IN  cl' = [cl EXCEPT !.copies = [T \in DOMAIN @ \cup {type} |->
                                           IF T = type THEN components[T] ELSE @[T]],
                            !.guards = @ \ {type},
                            !.at = IF cl.at = Len(cl.order) THEN 0 ELSE @ + 1,
                            !.pc = IF cl.at = Len(cl.order) THEN "done" ELSE @]
    /\ UNCHANGED wr
    /\ UNCHANGED <<allocVars, scanVars, storeVars, lockVars, ecsVars, cloneVars, setVars, arrayVars>>

\* ecs.write_component::<type>() returns to the thread t
WriteComponent(t, type) ==
    /\ type \notin wr[t]
    /\ CanWrite(type)
    /\ wr' = [wr EXCEPT ![t] = @ \cup {type}]
    /\ UNCHANGED cl
    /\ UNCHANGED <<allocVars, scanVars, storeVars, lockVars, ecsVars, cloneVars, setVars, arrayVars>>

\* the thread t calls insert(entity, component) on its write handle
WriterInsert(t, type, entity, component) ==
    /\ type \in wr[t]
    /\ Known(entity)
    /\ is_live(entity)
    /\ components' = [components EXCEPT
                         ![type] = StorageInsert(@, entity.index, component).st]
    /\ eop' = [name |-> "insert", arg |-> <<type, entity, component>>]
    /\ UNCHANGED <<cl, wr>>
    /\ UNCHANGED <<allocVars, scanVars, storeVars, lockVars, cloneVars, setVars, arrayVars>>

\* the thread t calls remove(entity) on its write handle
WriterRemove(t, type, entity) ==
    /\ type \in wr[t]
    /\ Known(entity)
    /\ is_live(entity)
    /\ components' = [components EXCEPT ![type] = StorageRemove(@, entity.index).st]
    /\ eop' = [name |-> "remove", arg |-> <<type, entity>>]
    /\ UNCHANGED <<cl, wr>>
    /\ UNCHANGED <<allocVars, scanVars, storeVars, lockVars, cloneVars, setVars, arrayVars>>

\* the thread t drops its write handle
WriterDrop(t, type) ==
    /\ type \in wr[t]
    /\ wr' = [wr EXCEPT ![t] = @ \ {type}]
    /\ UNCHANGED cl
    /\ UNCHANGED <<allocVars, scanVars, storeVars, lockVars, ecsVars, cloneVars, setVars, arrayVars>>

NextSnapshot ==
    \/ \E order \in IterationOrders : CloneStart(order)
    \/ CloneLock
    \/ CloneCopy
    \/ \E t \in Threads : \E type \in ComponentTypes : WriteComponent(t, type)
    \/ \E t \in Threads : \E type \in ComponentTypes : \E entity \in Handles :
          \E component \in ComponentValues(type) : WriterInsert(t, type, entity, component)
    \/ \E t \in Threads : \E type \in ComponentTypes : \E entity \in Handles :
          WriterRemove(t, type, entity)
    \/ \E t \in Threads : \E type \in ComponentTypes : WriterDrop(t, type)

SpecSnapshot == InitSnapshot /\ [][NextSnapshot]_vars

-----------------------------------------------------------------------------
(* Ecs::clone beside threads that take the write locks of several storages
   in ascending TypeId order, as multi_lock does: SpecCloneLocks.  A thread
   inside write() or read() waits until the lock is free; mlock holds, for
   each thread, the storages its call is to lock. *)

\* Ord for TypeId: the values are opaque; the model takes Position first
TypeIdLess(a, b) == Rank(a) < Rank(b)

\* the storage the thread t locks next: the least of those it has yet to lock
NextWanted(t) ==
    LET rest == mlock[t].tuple \ wr[t]
    IN  CHOOSE T \in rest : \A U \in rest \ {T} : TypeIdLess(T, U)

\* an Ecs with every component type registered, shared by the threads
InitCloneLocks ==
    /\ InitAllocator
    /\ NoQuery
    /\ NoStorage
    /\ world = {}
    /\ content = <<>>
    /\ mlock = [t \in Threads |-> [pc |-> "idle", tuple |-> {}]]
    /\ components = [T \in ComponentTypes |-> NewStorage(T)]
    /\ eop = [name |-> "new"]
    /\ ecss = <<>>
    /\ heap = <<>>
    /\ aborted = FALSE
    /\ cl = [pc |-> "idle", order |-> <<>>, at |-> 0, guards |-> {},
             copies |-> <<>>, instant |-> <<>>]
    /\ wr = [t \in Threads |-> {}]
    /\ NoSet /\ NoArray

\* the thread t sets out to take the write locks of the storages in tuple
WriterStart(t, tuple) ==
    /\ mlock[t].pc = "idle"
    /\ tuple # {}
    /\ mlock' = [mlock EXCEPT ![t] = [pc |-> "locking", tuple |-> tuple]]
    /\ UNCHANGED <<world, content>>
    /\ UNCHANGED <<allocVars, scanVars, storeVars, ecsVars, cloneVars, snapVars,
                   setVars, arrayVars>>

\* write_component of the next storage returns to the thread t
WriterLock(t) ==
    /\ mlock[t].pc = "locking"
    /\ CanWrite(NextWanted(t))
    /\ wr' = [wr EXCEPT ![t] = @ \cup {NextWanted(t)}]
    /\ mlock' = IF wr'[t] = mlock[t].tuple
                THEN [mlock EXCEPT ![t].pc = "locked"]
                ELSE mlock
    /\ UNCHANGED <<world, content, cl>>
    /\ UNCHANGED <<allocVars, scanVars, storeVars, ecsVars, cloneVars, setVars, arrayVars>>

\* the thread t drops its write handles
WriterRelease(t) ==
    /\ mlock[t].pc = "locked"
    /\ wr' = [wr EXCEPT ![t] = {}]
    /\ mlock' = [mlock EXCEPT ![t] = [pc |-> "idle", tuple |-> {}]]
    /\ UNCHANGED <<world, content, cl>>
    /\ UNCHANGED <<allocVars, scanVars, storeVars, ecsVars, cloneVars, setVars, arrayVars>>

NextCloneLocks ==
    \/ \E order \in IterationOrders : CloneStart(order)
    \/ CloneLock
    \/ CloneCopy
    \/ \E t \in Threads : \E tuple \in SUBSET ComponentTypes : WriterStart(t, tuple)
    \/ \E t \in Threads : WriterLock(t)
    \/ \E t \in Threads : WriterRelease(t)

SpecCloneLocks == InitCloneLocks /\ [][NextCloneLocks]_vars

-----------------------------------------------------------------------------
(* Properties of the allocator, checked under Spec *)

\* C1 (identity uniqueness): whatever allocate and deallocate calls are made
\* on one allocator, no (index, generation) pair is returned by two different
\* allocate calls, also when an index is reused.
C1_IdentityUniqueness == \A gi \in Handles : issued[gi] <= 1

\* an allocate has just reused the index of a value handed out before
C1_Witness ==
    /\ op.name = "allocate"
    /\ IsSome(op.ret)
    /\ Unwrap(op.ret).generation >= 1
    /\ issued[GenerationalIndex(Unwrap(op.ret).index, 0)] = 1

\* C2 (liveness): once deallocate(e) has returned true, is_live(e) is false
\* in every later state, and every later allocate that reuses e.index returns
\* a generation strictly greater than e.generation.
C2_DeadForever ==
    IsSome(watched) =>
        LET e == Unwrap(watched)
        IN  /\ ~is_live(e)
            /\ (op.name = "allocate" /\ IsSome(op.ret)
                    /\ Unwrap(op.ret).index = e.index)
                => Unwrap(op.ret).generation > e.generation

\* the three cases in which deallocate(gi) is said to refuse
OutOfRange(gi) == gi.index >= Len(entries)

AlreadyDead(gi) == gi.index < Len(entries) /\ ~entries[gi.index + 1].is_live

StaleHandle(gi) ==
    /\ gi.index < Len(entries)
    /\ entries[gi.index + 1].is_live
    /\ entries[gi.index + 1].generation # gi.generation

\* C3: deallocate(gi) returns false and leaves the slots and the free list
\* unchanged when gi.index is out of range, when the slot is already dead and
\* when the slot is live with a generation other than gi.generation.
C3_DeallocateRefuses ==
    [][\A gi \in Handles :
          (/\ op'.name = "deallocate"
           /\ op'.arg = gi
           /\ (OutOfRange(gi) \/ AlreadyDead(gi) \/ StaleHandle(gi)))
          => (op'.ret = FALSE /\ UNCHANGED <<entries, free>>)]_vars

-----------------------------------------------------------------------------
(* What the scanners are measured against *)

\* the indices at which storage st holds a component
Present(st) == {i \in Indices : IsSome(StorageGet(st, i))}

\* the component storage st holds at index i
ItemAt(st, i) == Unwrap(StorageGet(st, i))

\* the indices the scan calls have returned so far
Returned == {emitted[k] : k \in 1..Len(emitted)}

\* the position of the scanner: one past the last index returned
Position == IF emitted = <<>> THEN 0 ELSE emitted[Len(emitted)] + 1

\* the smallest index of P that is at least lo, if any
FirstFrom(P, lo) ==
    IF {i \in P : i >= lo} = {} THEN None
    ELSE Some(CHOOSE i \in P : i >= lo /\ \A j \in P : j >= lo => i <= j)

\* the entry at the smallest index of P that is >= u and beyond the position
\* of the scanner, with Item(i) the item expected at index i
NextEntry(P, Item(_), until) ==
    LET first == FirstFrom(P, Max(unwrap_or(until, 0), Position))
    IN  IF IsSome(first) THEN Some(<<Item(Unwrap(first)), Unwrap(first)>>) ELSE None

\* the scanner has not been consumed by singleton()
Scanning(shapes) == query.shape \in shapes /\ single = None

-----------------------------------------------------------------------------
(* Properties of the scanners: SpecScan *)

\* C4 (scan monotonicity): for every scanner and every sequence of scan
\* calls with arbitrary until arguments, the indices returned are strictly
\* increasing.
C4_ScanMonotone ==
    \A k \in 1..(Len(emitted) - 1) : emitted[k] < emitted[k + 1]

StorageItem(i) == ItemAt(stores[1], i)

\* C5 as stated: on a storage scanner, scan(Some(u)) returns the present
\* entry with the smallest index that is >= u and greater than every index
\* already returned, or None if there is none; scan(None) returns the next
\* entry; and scan(Some(u)) with u at or below the position returns what
\* scan(None) returns.
C5_ScanFromReturned ==
    Scanning({"Scan"}) =>
        /\ \A until \in Untils :
              Scan(qscan, until).r =
                  LET P == {i \in Present(stores[1]) :
                               /\ i >= unwrap_or(until, 0)
                               /\ \A j \in Returned : i > j}
                      first == FirstFrom(P, 0)
                  IN  IF IsSome(first)
                      THEN Some(<<StorageItem(Unwrap(first)), Unwrap(first)>>)
                      ELSE None
        /\ \A u \in 0..Position : Scan(qscan, Some(u)).r = Scan(qscan, None).r

\* C5 amended: as long as no scan call has returned None, scan(Some(u))
\* returns the present entry with the smallest index that is >= u and greater
\* than every index already returned, or None if there is none, scan(None)
\* returns the next entry, and scan(Some(u)) with u at or below the position
\* returns what scan(None) returns; once a call has returned None (the
\* scanner has moved past every entry, also those below that call's u and
\* never returned), every later call returns None.
C5_ScanFromPosition ==
    Scanning({"Scan"}) =>
        /\ \A until \in Untils :
              Scan(qscan, until).r =
                  IF drained THEN None
                  ELSE NextEntry(Present(stores[1]), StorageItem, until)
        /\ \A u \in 0..Position : Scan(qscan, Some(u)).r = Scan(qscan, None).r

\* an entry has been returned, an entry below it was skipped by an until
\* argument, and an entry is still to come
C5_Witness ==
    /\ Scanning({"Scan"})
    /\ emitted # <<>>
    /\ \E i \in Present(stores[1]) : i < emitted[1]
    /\ IsSome(Scan(qscan, Some(0)).r)

\* C8: S.opt() never returns None; scan(None) calls return the consecutive
\* indices 0, 1, 2, ..., scan(Some(u)) with u above the position returns
\* index u, each with Some(item) where S has an entry and None where it has
\* none; so the first n results of the iteration are the characteristic
\* function of S's present set on 0..n-1.
C8_OptTotal ==
    Scanning({"Opt"}) =>
        /\ \A until \in Untils :
              LET i == Max(unwrap_or(until, 0), Position)
              IN  Scan(qscan, until).r = Some(<<StorageGet(stores[1], i), i>>)
        /\ calls = 0 =>
              IterTake(qscan, MaxIndex + 2) =
                  [n \in 1..(MaxIndex + 2) |-> StorageGet(stores[1], n - 1)]

\* an opt scanner has jumped over an entry of S and returned a Some and a None
C8_Witness ==
    /\ Scanning({"Opt"})
    /\ calls >= 2
    /\ \E i \in Present(stores[1]) : i < Position /\ i \notin Returned
    /\ \E k \in Returned : k \in Present(stores[1])
    /\ \E k \in Returned : k \notin Present(stores[1])
    /\ result = Some(<<None, Position - 1>>)

\* the number of entries the scanner of the query has
EntryCount ==
    CASE query.shape \in {"Scan", "Map"} -> Cardinality(Present(stores[1]))
      [] query.shape = "Entities" ->
            Cardinality({i \in 1..Len(entries) : entries[i].is_live})
      [] query.shape = "Opt" -> 2       \* an entry at every index

\* C10: singleton() returns Missing for a scanner with no entry, the item
\* for a scanner with exactly one entry and Multiple for one with two or
\* more.
C10_SingletonClassifies ==
    (IsSome(single) /\ query.shape \in {"Scan", "Map", "Entities", "Opt"}) =>
        LET r == Unwrap(single)
        IN  /\ EntryCount = 0 => (r.tag = "Err" /\ r.val = "Missing")
            /\ EntryCount = 1 => (r.tag = "Ok" /\ r.val = Unwrap(Scan(qscan, None).r)[1])
            /\ EntryCount >= 2 => (r.tag = "Err" /\ r.val = "Multiple")

-----------------------------------------------------------------------------
(* Properties of the combinators: SpecJoin, SpecNot, SpecLimit *)

\* the indices present in every leg of the query
Common == {i \in Indices : \A j \in 1..Len(stores) : i \in Present(stores[j])}

\* the tuple of the legs' items at index i, in leg order
JoinItem(i) == [j \in 1..Len(stores) |-> ItemAt(stores[j], i)]

\* the entries at the indices of P in ascending order, as iter() yields them
ItemsOf(P, Item(_)) ==
    LET order == Ascending(P)
    IN  [n \in 1..Len(order) |-> Item(order[n])]

\* C6 (join is index intersection): component_scan_join emits, in ascending
\* order and each once, exactly the indices present in all legs, each with
\* the tuple of the legs' items at that index in leg order; scan(Some(u))
\* returns the first common index >= u (from the position the scanner has
\* reached; None once the join has returned None).
C6_JoinIntersection ==
    Scanning({"Join", "Join3"}) =>
        /\ \A until \in Untils :
              Scan(qscan, until).r =
                  IF drained THEN None ELSE NextEntry(Common, JoinItem, until)
        /\ calls = 0 => IterTake(qscan, MaxIndex + 2) = ItemsOf(Common, JoinItem)

\* a join has returned two common indices and passed an index between them
\* that only some of the legs hold
C6_Witness ==
    /\ Scanning({"Join", "Join3"})
    /\ Len(emitted) >= 2
    /\ IsSome(result)
    /\ \E i \in Indices \ Common :
          /\ emitted[1] < i /\ i < emitted[2]
          /\ \E j \in 1..Len(stores) : i \in Present(stores[j])

\* the indices of the first leg that the second leg does not hold
Difference == Present(stores[1]) \ Present(stores[2])

\* C7 (not is index difference): a.not(b) emits, in ascending order and each
\* once, exactly the entries of a whose index is not present in b: an index
\* in both is skipped, past the end of b every entry of a is emitted;
\* scan(Some(u)) returns the first such entry at index >= u (from the
\* position the scanner has reached; None once it has returned None).
C7_NotDifference ==
    Scanning({"Not"}) =>
        /\ \A until \in Untils :
              Scan(qscan, until).r =
                  IF drained THEN None ELSE NextEntry(Difference, StorageItem, until)
        /\ calls = 0 => IterTake(qscan, MaxIndex + 2) = ItemsOf(Difference, StorageItem)

\* a not has skipped an index that both hold and then returned an entry of a
\* that lies past the last entry of b
C7_Witness ==
    /\ Scanning({"Not"})
    /\ IsSome(result)
    /\ \E i \in Present(stores[1]) \cap Present(stores[2]) :
          /\ i < Unwrap(result)[2]
          /\ \A j \in Present(stores[2]) : j <= i

\* C9 (limit is join then fst): for every sequence of scan(until) calls,
\* a.limit(b) returns what component_scan_join((a, b)) returns with each
\* item pair replaced by its first component, and so does its iteration.
C9_LimitIsJoinFst ==
    query.shape = "Limit" =>
        /\ result = MapItem("fst", mresult)
        /\ calls = 0 =>
              LET joined == IterTake(Unwrap(mirror), MaxIndex + 2)
              IN  IterTake(qscan, MaxIndex + 2) =
                      [n \in 1..Len(joined) |-> joined[n][1]]

\* a limit has returned two entries, with an entry of a between them that b
\* does not hold
C9_Witness ==
    /\ query.shape = "Limit"
    /\ Len(emitted) >= 2
    /\ IsSome(result)
    /\ \E i \in Present(stores[1]) \ Present(stores[2]) :
          emitted[1] < i /\ i < emitted[2]

-----------------------------------------------------------------------------
(* Properties of the storages: SpecStorage *)

\* the component that was put in at index i and not taken out since
RowAt(i) == rows[i]

\* C11 (scan equivalence): for a dense or sparse storage reached by any
\* sequence of insert and remove calls, with P the indices put in and not
\* taken out since, iterating scan() and iterating scan_mut() each yield
\* exactly the components at the indices of P in ascending index order, each
\* once, and then end.
C11_ScanEquivalence ==
    LET expected == ItemsOf(DOMAIN rows, RowAt)
    IN  /\ IterTake(DenseScan(dense.vec), MaxIndex + 2) = expected
        /\ IterTake(DenseScanMut(dense.vec), MaxIndex + 2) = expected
        /\ IterTake(SparseScan(sparse.map), MaxIndex + 2) = expected
        /\ IterTake(SparseScanMut(sparse.map), MaxIndex + 2) = expected

\* a remove has taken a component out from between two others
C11_Witness ==
    /\ sop.name = "remove"
    /\ IsSome(sop.dense_ret)
    /\ \E i \in DOMAIN rows : \E j \in DOMAIN rows : i < sop.index /\ sop.index < j

\* C12 (dense and sparse are observationally equivalent): every insert,
\* remove and get call returns the same from the dense and from the sparse
\* storage, and afterwards every scan(until) call on their scan() or
\* scan_mut() scanners, alone or under the same combinator, returns the same
\* from both.
C12_DenseSparseEquivalent ==
    /\ sop.name \in {"insert", "remove", "get"} => sop.dense_ret = sop.sparse_ret
    /\ IsSome(mirror) =>
          /\ result = mresult
          /\ \A until \in Untils :
                Scan(qscan, until).r = Scan(Unwrap(mirror), until).r

\* after inserts that replaced a component, the two storages have been
\* scanned twice under a not and returned an entry
C12_Witness ==
    /\ query.shape = "Not"
    /\ calls >= 2
    /\ IsSome(result)
    /\ \E i \in DOMAIN rows : rows[i] = Val(2, i)
    /\ \E i \in Indices \ DOMAIN rows : i < Len(dense.vec)

-----------------------------------------------------------------------------
(* Properties of multi_lock: SpecLocks *)

\* thread t is inside a lock call that cannot return because of a guard that
\* thread u holds
WaitsFor(t, u) ==
    LET c == mlock[t]
    IN  /\ c.pc = "locking"
        /\ c.at < Len(c.sorted)
        /\ LET locker == c.tuple[c.sorted[c.at + 1]]
           IN  /\ locker.id \in world
               /\ \E g \in HeldGuards(mlock[u]) :
                     g.id = locker.id /\ (locker.write \/ g.write)

\* C13 (deadlock freedom of multi_lock): for any threads concurrently
\* calling multi_lock with arbitrary tuples of lockers, no state is
\* reachable in which calls form a cycle, each waiting for a lock held by
\* the next.
C13_NoWaitCycle ==
    ~ \E C \in (SUBSET Threads) \ {{}} : \A t \in C : \E u \in C : WaitsFor(t, u)

\* the LockIds in ascending order: resources by TypeId, then components
LockIdsAscending ==
    LET types == Ascending(TypeIds)
    IN  [k \in 1..Len(types) |-> LockId("Resource", types[k])]
            \o [k \in 1..Len(types) |-> LockId("Component", types[k])]

\* how many lockers of tuple m name the LockId id
CountOf(m, id) == Cardinality({i \in 1..Len(m) : m[i].id = id})

RECURSIVE SortedIdsFrom(_, _)
\* the LockIds of tuple m in ascending order, from the k-th LockId on
SortedIdsFrom(m, k) ==
    IF k > Len(LockIdsAscending) THEN <<>>
    ELSE [n \in 1..CountOf(m, LockIdsAscending[k]) |-> LockIdsAscending[k]]
             \o SortedIdsFrom(m, k + 1)

\* two tuples are permutations of each other
SameLockIds(m1, m2) ==
    /\ Len(m1) = Len(m2)
    /\ \A id \in LockIds : CountOf(m1, id) = CountOf(m2, id)

\* C14 (multi-lock ordering): the sequence of LockIds in which a multi_lock
\* call acquires its locks is the tuple's LockIds sorted ascending, every
\* resource before any component and each kind in TypeId order (all of them
\* once the call has returned its handles, a prefix before); two tuples
\* that are permutations of each other acquire in the same order.
C14_AcquisitionOrder ==
    /\ \A t \in Threads :
          LET c == mlock[t]
              ids == SortedIdsFrom(c.tuple, 1)
          IN  /\ Len(c.acquired) <= Len(ids)
              /\ c.acquired = SubSeq(ids, 1, Len(c.acquired))
              /\ c.pc = "holding" => c.acquired = ids
    /\ \A t \in Threads : \A u \in Threads :
          /\ mlock[t].pc = "holding"
          /\ mlock[u].pc = "holding"
          /\ SameLockIds(mlock[t].tuple, mlock[u].tuple)
          => mlock[t].acquired = mlock[u].acquired

\* two calls hold their handles whose tuples name a component before a
\* resource in the one and the same two the other way round in the other
C14_Witness ==
    \E t \in Threads : \E u \in Threads \ {t} :
        /\ mlock[t].pc = "holding"
        /\ mlock[u].pc = "holding"
        /\ Len(mlock[t].tuple) = 2
        /\ mlock[t].tuple[1].id.kind = "Component"
        /\ mlock[t].tuple[2].id.kind = "Resource"
        /\ mlock[u].tuple = <<mlock[t].tuple[2], mlock[t].tuple[1]>>

\* C15 (handles in declared order): the i-th handle a successful multi_lock
\* returns is the one for the i-th locker of the tuple, same item and same
\* read or write mode, whatever the order of acquisition.
C15_HandlesInDeclaredOrder ==
    \A t \in Threads :
        mlock[t].pc = "holding" =>
            LET c == mlock[t]
                hs == Unwrap(c.handles)
            IN  /\ hs.tag = "Ok"
                /\ Len(hs.val) = Len(c.tuple)
                /\ \A i \in 1..Len(c.tuple) :
                      /\ hs.val[i].id = c.tuple[i].id
                      /\ hs.val[i].write = c.tuple[i].write

\* a call has returned its handles for a tuple that names a write of a
\* component before a read of a resource, which was locked first
C15_Witness ==
    \E t \in Threads :
        /\ mlock[t].pc = "holding"
        /\ Len(mlock[t].tuple) = 2
        /\ mlock[t].tuple[1].id.kind = "Component" /\ mlock[t].tuple[1].write
        /\ mlock[t].tuple[2].id.kind = "Resource" /\ ~mlock[t].tuple[2].write
        /\ mlock[t].acquired[1] = mlock[t].tuple[2].id

\* C16 (a failed multi_lock releases its locks): a call that fails because
\* a resource is absent or a component unregistered returns an error, and
\* once it has returned it holds none of the locks it had acquired, so no
\* lock request is blocked by it.
C16_FailureReleases ==
    \A t \in Threads :
        mlock[t].pc = "failed" =>
            /\ Unwrap(mlock[t].handles).tag = "Err"
            /\ HeldGuards(mlock[t]) = {}
            /\ \A u \in Threads : ~WaitsFor(u, t)

\* a call has failed after acquiring a lock, and another call is about to
\* take that lock for writing and can
C16_Witness ==
    \E t \in Threads : \E u \in Threads \ {t} :
        /\ mlock[t].pc = "failed"
        /\ mlock[t].acquired # <<>>
        /\ mlock[u].pc = "locking"
        /\ mlock[u].at < Len(mlock[u].sorted)
        /\ LET locker == mlock[u].tuple[mlock[u].sorted[mlock[u].at + 1]]
           IN  /\ locker.write
               /\ locker.id = mlock[t].acquired[1]
               /\ CanAcquire(u, locker)

\* while a call holds its handles, no other thread holds a write lock on an
\* item it locked nor any lock on an item it locked for writing
Exclusive ==
    \A t \in Threads :
        mlock[t].pc = "holding" =>
            \A g \in HeldGuards(mlock[t]) : \A u \in Threads \ {t} :
                \A h \in HeldGuards(mlock[u]) :
                    h.id = g.id => (~h.write /\ ~g.write)

\* while a call holds its handles, the content of an item it locked changes
\* only by a write of the holder through a write handle
HeldContentStable ==
    \A t \in Threads :
        (mlock[t].pc = "holding" /\ mlock'[t].pc = "holding") =>
            \A g \in HeldGuards(mlock[t]) :
                content'[g.id] # content[g.id] => (g.write /\ content'[g.id].by = t)

\* C17 (isolation under a multi-lock): from the return of the handles until
\* they are dropped no other thread holds a write lock on an item the call
\* locked and no other thread holds any lock on an item it locked for
\* writing; so every item it locked keeps its content, apart from the
\* holder's own writes.
C17_HeldItemsIsolated == []Exclusive /\ [][HeldContentStable]_vars

\* a call holds a write handle it has written through and a read handle on
\* an item that another call holds for reading too
C17_Witness ==
    \E t \in Threads : \E u \in Threads \ {t} :
        /\ mlock[t].pc = "holding"
        /\ \E g \in HeldGuards(mlock[t]) : g.write /\ content[g.id].by = t
        /\ \E g \in HeldGuards(mlock[t]) : \E h \in HeldGuards(mlock[u]) :
              ~g.write /\ h.id = g.id

-----------------------------------------------------------------------------
(* Properties of the Ecs: SpecEcs *)

RowsOf(cs, index) ==
    [T \in {U \in DOMAIN cs : IsSome(StorageGet(cs[U], index))} |->
        Unwrap(StorageGet(cs[T], index))]

\* C19 (remove_entity of a live entity): remove_entity(e) on a live entity e
\* returns a bundle holding exactly the components e had in the registered
\* storages, and after the call e is not live and no registered storage has
\* a row at e.index.
C19_RemoveLiveEntity ==
    [][\A e \in Handles :
          (eop'.name = "remove_entity" /\ eop'.arg = e /\ is_live(e))
              => /\ eop'.ret = Some(RowsOf(components, e.index))
                 /\ ~is_live_in(entries', e)
                 /\ \A T \in ComponentTypes :
                       StorageGet(components'[T], e.index) = None]_vars

\* remove_entity has removed a live entity that had a component of every
\* type
C19_Witness ==
    /\ eop.name = "remove_entity"
    /\ eop.ret # None
    /\ DOMAIN Unwrap(eop.ret) = ComponentTypes
    /\ entries[eop.arg.index + 1].generation = eop.arg.generation + 1

\* C20 (handle lookups are mediated by liveness): get(entity) and
\* get_mut(entity) on a component handle return a component only when the
\* entity is live; for an entity that is not live they return None, also
\* when a live entity with a component of the type has reused its index.
C20_GetMediatedByLiveness ==
    eop.name \in {"get", "get_mut"} =>
        (~is_live(eop.arg[2]) => eop.ret = None)

\* the rows of the storages cs other than the row `index` of the storage of
\* `type` are the same in ds
OtherRowsSame(cs, ds, type, index) ==
    /\ DOMAIN ds = DOMAIN cs
    /\ \A T \in DOMAIN cs : \A i \in 0..MaxSlots :
          (T # type \/ i # index) => StorageGet(ds[T], i) = StorageGet(cs[T], i)

\* C21 (insert and remove through a write handle): insert(entity, value)
\* returns EntityIsDead(value) and leaves the storages unchanged when the
\* entity is not live; otherwise it stores the value at entity.index and
\* returns Inserted if there was no row there, Updated(old) with the
\* displaced value if there was. remove(entity) on an entity that is not
\* live returns None and leaves the storages unchanged.
C21_HandleInsertRemove ==
    [][/\ eop'.name = "insert" =>
             LET type == eop'.arg[1]
                 entity == eop'.arg[2]
                 value == eop'.arg[3]
                 old == StorageGet(components[type], entity.index)
             IN  IF ~is_live(entity)
                 THEN eop'.ret = <<"EntityIsDead", value>> /\ UNCHANGED components
                 ELSE /\ StorageGet(components'[type], entity.index) = Some(value)
                      /\ OtherRowsSame(components, components', type, entity.index)
                      /\ eop'.ret = IF old = None THEN <<"Inserted">>
                                    ELSE <<"Updated", Unwrap(old)>>
       /\ (eop'.name = "remove" /\ ~is_live(eop'.arg[2])) =>
             (eop'.ret = None /\ UNCHANGED components)]_vars

\* insert on a dead entity has handed the value back while a live entity
\* that reused the index has a different component of the type
C21_Witness ==
    /\ eop.name = "insert"
    /\ eop.ret = <<"EntityIsDead", eop.arg[3]>>
    /\ \E e \in Handles :
          /\ is_live(e)
          /\ e.index = eop.arg[2].index
          /\ IsSome(StorageGet(components[eop.arg[1]], e.index))
          /\ StorageGet(components[eop.arg[1]], e.index) # Some(eop.arg[3])

-----------------------------------------------------------------------------
(* Properties of registration and of bundles: SpecRegister *)

\* the bundle holds a component of a type without a registered storage
HasUnregistered(input) == \E T \in DOMAIN input : T \notin DOMAIN components

\* C22 (insert_components on an entity that is not live): the call returns
\* Ok(None) and changes no storage and not the allocator, whatever the
\* bundle contains, unregistered types included.
C22_InsertComponentsDeadNoop ==
    [][(eop'.name = "insert_components" /\ ~is_live(eop'.arg[1]))
          => (eop'.ret = Ok(None) /\ UNCHANGED <<components, entries, free>>)]_vars

\* insert_components on a dead entity has returned Ok(None) for a bundle
\* with a registered and an unregistered type, while a live entity holds
\* the index
C22_Witness ==
    /\ eop.name = "insert_components"
    /\ ~is_live(eop.arg[1])
    /\ eop.ret = Ok(None)
    /\ HasUnregistered(eop.arg[2])
    /\ DOMAIN eop.arg[2] \cap DOMAIN components # {}
    /\ \E e \in Handles : is_live(e) /\ e.index = eop.arg[1].index

\* the entity that the add_entity step has allocated
Allocated(before, after) == CHOOSE e \in Handles : after[e] = before[e] + 1

\* the components of the bundle whose types are registered are in the row
\* `index` of the storages cs
RegisteredInserted(cs, index, input) ==
    \A T \in DOMAIN input \cap DOMAIN cs : StorageGet(cs[T], index) = Some(input[T])

\* what add_entity does with a bundle that holds an unregistered type
AddEntityPartial ==
    (eop'.name = "add_entity" /\ HasUnregistered(eop'.arg)) =>
        LET entity == Allocated(issued, issued')
        IN  /\ eop'.ret = Err("UnregisteredComponent")
            /\ DOMAIN components' = DOMAIN components
            /\ is_live_in(entries', entity)
            /\ ~is_live(entity)
            /\ RegisteredInserted(components', entity.index, eop'.arg)

\* what insert_components does to an entity with a bundle that holds an
\* unregistered type
InsertComponentsPartial ==
    /\ eop'.ret = Err("UnregisteredComponent")
    /\ DOMAIN components' = DOMAIN components
    /\ is_live_in(entries', eop'.arg[1])
    /\ RegisteredInserted(components', eop'.arg[1].index, eop'.arg[2])

\* C23 as stated (partial insertion, for every entity): when the bundle
\* given to add_entity or insert_components contains a type with no
\* registered storage, the call returns UnregisteredComponent and the
\* bundle's components of registered types have been inserted for the
\* entity; after add_entity the new entity is allocated and live.
C23_PartialInsertAnyEntity ==
    [][/\ AddEntityPartial
       /\ (eop'.name = "insert_components" /\ HasUnregistered(eop'.arg[2]))
             => InsertComponentsPartial]_vars

\* C23 (partial insertion, for a live entity): as above, where the entity
\* given to insert_components is live.
C23_PartialInsert ==
    [][/\ AddEntityPartial
       /\ (eop'.name = "insert_components" /\ HasUnregistered(eop'.arg[2])
               /\ is_live(eop'.arg[1]))
             => InsertComponentsPartial]_vars

\* add_entity has failed with UnregisteredComponent and a live entity has
\* the bundle's component of a registered type
C23_Witness ==
    /\ eop.name = "add_entity"
    /\ eop.ret = Err("UnregisteredComponent")
    /\ \E e \in Handles : \E T \in DOMAIN eop.arg \cap DOMAIN components :
          is_live(e) /\ StorageGet(components[T], e.index) = Some(eop.arg[T])

\* C24 (idempotent registration): register_component::<T>() when T is
\* registered leaves the Ecs unchanged: the T storage and every component in
\* it are kept, not replaced by a fresh empty storage.
C24_RegisterIdempotent ==
    [][(eop'.name = "register_component" /\ eop'.arg \in DOMAIN components)
          => UNCHANGED <<components, entries, free>>]_vars

\* register_component has run on a type whose storage holds a component
C24_Witness ==
    /\ eop.name = "register_component"
    /\ \E i \in 0..MaxSlots : IsSome(StorageGet(components[eop.arg], i))

-----------------------------------------------------------------------------
(* Properties of the clone: SpecClone *)

\* what the observations of the Ecs w are made of: the allocator's entries,
\* which decide the liveness of every entity, and the storage of every type
Observation(es, h, w) == [entries |-> es[w].entries, storages |-> Boxed(h, es[w])]

\* C25 (clone independence): after c = ecs.clone(), every add_entity,
\* insert_components, remove_entity and handle insert or remove applied to
\* the original leaves every observation of c unchanged, and every one
\* applied to c leaves the original's unchanged: no step changes what can
\* be observed of both.
C25_CloneIndependent ==
    [][DOMAIN ecss = {"original", "clone"} =>
          \/ Observation(ecss', heap', "original") = Observation(ecss, heap, "original")
          \/ Observation(ecss', heap', "clone") = Observation(ecss, heap, "clone")]_vars

\* the original and its clone have come to differ in liveness and in the
\* rows of every storage
C25_Witness ==
    /\ DOMAIN ecss = {"original", "clone"}
    /\ \E e \in Handles :
          is_live_in(ecss["original"].entries, e) # is_live_in(ecss["clone"].entries, e)
    /\ \A T \in ComponentTypes : \E i \in 0..MaxSlots :
          StorageGet(Boxed(heap, ecss["original"])[T], i)
              # StorageGet(Boxed(heap, ecss["clone"])[T], i)

-----------------------------------------------------------------------------
(* Properties of clone beside writers: SpecSnapshot *)

\* the clone holds the read lock of every storage it has not copied yet,
\* and from the instant it has acquired the last one every copy made is the
\* storage of that instant and every storage still to copy is unchanged
SnapshotOfInstant ==
    /\ cl.pc = "locking" => cl.copies = <<>>
    /\ cl.pc \in {"copying", "done"} =>
          /\ \A T \in DOMAIN cl.copies : cl.copies[T] = cl.instant[T]
          /\ \A T \in ComponentTypes \ DOMAIN cl.copies :
                T \in cl.guards /\ components[T] = cl.instant[T]
    /\ cl.pc = "done" => DOMAIN cl.copies = ComponentTypes /\ cl.guards = {}

-----------------------------------------------------------------------------
(* Properties of the entity scanners *)

\* the live entities of an allocator with entries es, in ascending index
\* order
LiveEntities(es) ==
    LET live == Ascending({i \in 0..(Len(es) - 1) : es[i + 1].is_live})
    IN  [k \in 1..Len(live) |-> Entity(GenerationalIndex(live[k], es[live[k] + 1].generation))]

\* C27 (scan_entities scans through all live entities): repeated scan(None)
\* calls on scan_entities() return every live entity exactly once, in
\* ascending index order, and then None: as long as the calls have returned
\* the first live entities in order, scan(None) returns the next live
\* entity, or None when all of them have been returned.
C27_ScanEntitiesAll ==
    [][(/\ query.shape = "Entities"
        /\ ScanCall(None)
        /\ calls <= Len(LiveEntities(entries))
        /\ emitted = [k \in 1..calls |-> LiveEntities(entries)[k].index])
          => result' = IF calls < Len(LiveEntities(entries))
                       THEN Some(<<LiveEntities(entries)[calls + 1],
                                   LiveEntities(entries)[calls + 1].index>>)
                       ELSE None]_vars

\* the live members of the set, in ascending index order; no two members
\* of one index are live
LiveMembers(es, set) ==
    LET live == {e \in set : is_live_in(es, e)}
        order == Ascending({e.index : e \in live})
    IN  [k \in 1..Len(order) |-> CHOOSE e \in live : e.index = order[k]]

\* a scan call on the set's scanner returns a live member of the set whose
\* index is above every index returned before
SetScanSound ==
    (query.shape = "EntitySet" /\ calls' = calls + 1 /\ result' # None) =>
        LET entity == Unwrap(result')[1]
        IN  /\ entity \in eset
            /\ is_live(entity)
            /\ Unwrap(result')[2] = entity.index
            /\ \A k \in 1..Len(emitted) : emitted[k] < entity.index

\* as long as the calls have returned the first live members in order,
\* scan(None) returns the next live member, or None when there is none left
SetScanComplete ==
    (/\ query.shape = "EntitySet"
     /\ ScanCall(None)
     /\ calls <= Len(LiveMembers(entries, eset))
     /\ emitted = [k \in 1..calls |-> LiveMembers(entries, eset)[k].index])
       => result' = IF calls < Len(LiveMembers(entries, eset))
                    THEN Some(<<LiveMembers(entries, eset)[calls + 1],
                                LiveMembers(entries, eset)[calls + 1].index>>)
                    ELSE None

-----------------------------------------------------------------------------
(* Properties of GenerationalIndexArray and EntityIndex: SpecArray *)

\* the slot at key.index holds an entry stored under key's generation
Matches(arr, key) ==
    /\ key.index < Len(arr)
    /\ IsSome(arr[key.index + 1])
    /\ Unwrap(arr[key.index + 1]).generation = key.generation

\* C29 (generation-strict lookups): after any sequence of insert and remove
\* calls, get(k), get_mut(k) and contains_key(k) find a value exactly when
\* the slot at k.index holds an entry whose stored generation equals
\* k.generation, and get and get_mut return that entry's value; a key with a
\* stale or a newer generation for an occupied slot finds nothing.
C29_LookupGenerationStrict ==
    /\ aop.name \in {"get", "get_mut"} =>
          aop.ret = IF Matches(array, aop.key)
                    THEN Some(Unwrap(array[aop.key.index + 1]).value)
                    ELSE None
    /\ aop.name = "contains_key" => (aop.ret <=> Matches(array, aop.key))

\* get has found nothing for a key whose slot holds an entry of another
\* generation, in an array that has an empty slot too
C29_Witness ==
    /\ aop.name = "get"
    /\ aop.ret = None
    /\ aop.key.index < Len(array)
    /\ IsSome(array[aop.key.index + 1])
    /\ \E i \in 1..Len(array) : array[i] = None

\* C30 (remove only removes if the generation matches): remove(entity)
\* removes and returns the stored value when the slot at entity.index holds
\* an entry with entity's generation; when the slot holds an entry of another
\* generation it returns None and leaves the entry in place.
C30_RemoveGenerationStrict ==
    [][aop'.name = "remove" =>
          IF Matches(array, aop'.key)
          THEN /\ aop'.ret = Some(Unwrap(array[aop'.key.index + 1]).value)
               /\ array' = [array EXCEPT ![aop'.key.index + 1] = None]
          ELSE aop'.ret = None /\ array' = array]_vars

-----------------------------------------------------------------------------
(* The free list, the generations and the footprint of the allocator,      *)
(* checked under Spec                                                      *)

\* the indices on the free list
FreeIndices == {free[k] : k \in 1..Len(free)}

\* C31 (free-list invariant): in every state reachable by allocate and
\* deallocate calls an index is on the free list if and only if its slot is
\* dead, no index is on the free list twice, and the assertion in allocate
\* that the popped slot is dead has not failed.
C31_FreeListInvariant ==
    /\ FreeIndices \subseteq 0..(Len(entries) - 1)
    /\ \A i \in 0..(Len(entries) - 1) : (i \in FreeIndices) <=> ~entries[i + 1].is_live
    /\ \A j, k \in 1..Len(free) : j # k => free[j] # free[k]
    /\ ~panicked

\* an allocate has popped one of two indices off the free list
C31_Witness ==
    /\ op.name = "allocate"
    /\ IsSome(op.ret)
    /\ Unwrap(op.ret).generation >= 1
    /\ free # <<>>

\* the last value allocate returned at index i: generations only grow, so
\* it is the one of the highest generation
LastAllocated(i) ==
    LET gs == {g \in 0..MaxGen : issued[GenerationalIndex(i, g)] >= 1}
    IN  GenerationalIndex(i, CHOOSE g \in gs : \A h \in gs : h <= g)

\* an allocate step that reuses index i
Reuses(i) ==
    /\ op'.name = "allocate"
    /\ IsSome(op'.ret)
    /\ Unwrap(op'.ret).index = i
    /\ i < Len(entries)

\* C32: the generation of a slot changes exactly on successful deallocation
\* and never on allocation: in every reachable state the generation of slot
\* i equals the number of deallocate calls on index i that returned true,
\* and an allocate that reuses an index returns the last value allocated
\* there with its generation plus one.
C32_GenerationCountsDeallocations ==
    /\ [](\A i \in 0..(Len(entries) - 1) : entries[i + 1].generation = freed[i])
    /\ [][\A i \in 0..(Len(entries) - 1) :
             /\ op'.name = "allocate" => entries'[i + 1].generation = entries[i + 1].generation
             /\ Reuses(i) =>
                    Unwrap(op'.ret) = GenerationalIndex(i, LastAllocated(i).generation + 1)]_vars

\* an allocate has returned an index for the third time
C32_Witness ==
    /\ op.name = "allocate"
    /\ IsSome(op.ret)
    /\ Unwrap(op.ret).generation = 2
    /\ freed[Unwrap(op.ret).index] = 2

\* the number of allocate calls that have returned a value
RECURSIVE SumIssued(_)
SumIssued(H) ==
    IF H = {} THEN 0
    ELSE LET gi == CHOOSE x \in H : TRUE IN issued[gi] + SumIssued(H \ {gi})

Allocations == SumIssued(Handles)

-----------------------------------------------------------------------------
(* Properties of insert_components on live entities: SpecInsert *)

\* the part of the bundle b that is of the types in S
Restricted(b, S) == [T \in DOMAIN b \cap S |-> b[T]]

\* C34: insert_components(entity, bundle) on a live entity with a bundle of
\* registered types only returns Ok(Some(overwritten)), overwritten holding
\* exactly the values the entity had for the bundle's types; afterwards the
\* entity has the bundle's value for each of those types, and its components
\* of the other types and all components of the other entities are unchanged.
C34_InsertComponentsLive ==
    [][eop'.name = "insert_components" =>
          LET entity == eop'.arg[1]
              input == eop'.arg[2]
          IN  (is_live(entity) /\ DOMAIN input \subseteq DOMAIN components)
              => /\ eop'.ret = Ok(Some(Restricted(RowsOf(components, entity.index),
                                                  DOMAIN input)))
                 /\ Restricted(RowsOf(components', entity.index), DOMAIN input) = input
                 /\ DOMAIN components' = DOMAIN components
                 /\ \A T \in DOMAIN components : \A i \in 0..MaxSlots :
                       (T \notin DOMAIN input \/ i # entity.index)
                           => StorageGet(components'[T], i) = StorageGet(components[T], i)
                 /\ UNCHANGED <<entries, free>>]_vars

\* insert_components has overwritten a component of a live entity and left
\* a component of the type with another live entity
C34_Witness ==
    /\ eop.name = "insert_components"
    /\ eop.ret.tag = "Ok"
    /\ IsSome(eop.ret.val)
    /\ "Position" \in DOMAIN Unwrap(eop.ret.val)
    /\ Unwrap(eop.ret.val)["Position"] # eop.arg[2]["Position"]
    /\ \E i \in 0..(Len(entries) - 1) :
          /\ i # eop.arg[1].index
          /\ entries[i + 1].is_live
          /\ IsSome(StorageGet(components["Position"], i))

-----------------------------------------------------------------------------
(* Properties of the rows of the storages: SpecRows *)

\* the storage of type T has a row at index i
HasRow(T, i) == IsSome(StorageGet(components[T], i))

\* C36 (rows exist only for live slots): in every Ecs state reachable
\* through register_component, add_entity, insert_components, remove_entity
\* and the insert and remove of a component handle, a registered storage has
\* a row at index i only if the allocator slot i is live; and an entity
\* returned by add_entity(None) has no component in any storage, also when
\* its index is recycled.
C36_RowsOnlyForLive ==
    /\ [](\A T \in DOMAIN components : \A i \in 0..MaxSlots :
             HasRow(T, i) => (i < Len(entries) /\ entries[i + 1].is_live))
    /\ [][(/\ eop'.name = "add_entity"
           /\ DOMAIN eop'.arg = {}
           /\ eop'.ret.tag = "Ok")
          => DOMAIN RowsOf(components', eop'.ret.val.index) = {}]_vars

\* add_entity(None) has returned a recycled index while both component
\* types are registered
C36_Witness ==
    /\ DOMAIN components = ComponentTypes
    /\ eop.name = "add_entity"
    /\ DOMAIN eop.arg = {}
    /\ eop.ret.tag = "Ok"
    /\ eop.ret.val.generation >= 1
    /\ is_live(eop.ret.val)

-----------------------------------------------------------------------------
(* Properties of the join with scan_entities(): SpecEntityJoin *)

\* the indices at which a live entity exists and every storage leg has an
\* entry
LiveCommon == {i \in Common : i < Len(entries) /\ entries[i + 1].is_live}

\* the live entity of index i, followed by the legs' items at index i
EntityJoinItem(i) ==
    <<Entity(GenerationalIndex(i, entries[i + 1].generation))>> \o JoinItem(i)

\* C35: component_scan_join((scan_entities(), A, ...)) emits exactly one
\* result for each index at which a live entity exists and every other leg
\* has an entry, in ascending index order, carrying the live Entity of that
\* index, and the query terminates; scan(Some(u)) returns the first such
\* result at an index >= u (from the position the scanner has reached; None
\* once the join has returned None).
C35_EntityJoin ==
    Scanning({"EntityJoin"}) =>
        /\ \A until \in Untils :
              Scan(qscan, until).r =
                  IF drained THEN None ELSE NextEntry(LiveCommon, EntityJoinItem, until)
        /\ calls = 0 => IterTake(qscan, MaxIndex + 2) = ItemsOf(LiveCommon, EntityJoinItem)

\* the join has returned two entities in a row, the second one recycled,
\* and passed over a dead slot or an entity without an entry
C35_Witness ==
    /\ Scanning({"EntityJoin"})
    /\ Len(emitted) >= 2
    /\ IsSome(result)
    /\ Unwrap(result)[1][1].generation = 1
    /\ Len(stores) = 2

-----------------------------------------------------------------------------
(* Properties of exhausted scanners: SpecExhaust *)

\* C37 (an exhausted scanner stays exhausted): for every scanner other than
\* opt (storage scans, scan_entities, scan_entity_set, map, limit, not, join
\* of such scanners), once a scan call has returned None every later scan
\* call with any until argument returns None.
C37_ExhaustedStays ==
    (query.shape \notin {"None", "Opt"} /\ drained) =>
        \A until \in Untils : Scan(qscan, until).r = None

\* a join, not or limit has returned an entry and then None twice, while
\* its first leg holds an entry past the last index returned
C37_Witness ==
    /\ query.shape \in {"Join", "Not", "Limit"}
    /\ drained
    /\ result = None
    /\ emitted # <<>>
    /\ calls >= Len(emitted) + 2
    /\ \E i \in Present(stores[1]) : i > emitted[Len(emitted)]

-----------------------------------------------------------------------------
(* Properties of clone beside ordered lockers: SpecCloneLocks *)

\* the clone and the threads
Callers == Threads \cup {"clone"}

\* n waits for a lock that m holds
Awaits(n, m) ==
    IF n = "clone"
    THEN /\ cl.pc = "locking"
         /\ m \in Threads
         /\ cl.order[cl.at] \in wr[m]
    ELSE /\ mlock[n].pc = "locking"
         /\ IF m = "clone"
            THEN NextWanted(n) \in cl.guards
            ELSE m # n /\ NextWanted(n) \in wr[m]

\* a set of callers each of which waits for a lock another of them holds
CyclicWait ==
    \E B \in SUBSET Callers :
        B # {} /\ \A n \in B : \E m \in B : Awaits(n, m)

\* C38 (Ecs::clone cannot deadlock with ordered lockers): when Ecs::clone
\* runs beside threads that each take write locks on several storages in
\* ascending TypeId order and later release them, no cyclic wait is
\* reachable, whatever order clone visits the storages in.
C38_CloneNoCyclicWait == ~CyclicWait

-----------------------------------------------------------------------------
(* A multi_lock call on its own: SpecLocks *)

\* C39: a single multi_lock call with no other thread active returns,
\* handles or an error, for every tuple, also one in which two lockers name
\* the same component or resource type and at least one of them is a write
\* locker; it never waits for a lock that the same call already holds, and
\* it does not panic.
C39_SingleCallReturns ==
    \A t \in Threads :
        (\A u \in Threads \ {t} : mlock[u].pc = "idle")
            => (~WaitsFor(t, t) /\ mlock[t].pc # "panicked")

====
